---- MODULE Spec2Model ----
(***************************************************************************)
(* BinaryReaderLogging (src/binary-reader-logging.cc): a decorator that    *)
(* writes one trace line per decoding event to a Stream and forwards the   *)
(* event to the wrapped BinaryReaderDelegate.                              *)
(*                                                                         *)
(* A handler is modelled as the composition, in source order, of the       *)
(* statements of its body (LOGF, LOGF_NOINDENT, Indent, Dedent, the final  *)
(* `return reader_->name(...)`), each a function from the object's state   *)
(* to the object's state.  The action Call runs one whole handler.         *)
(***************************************************************************)
EXTENDS Integers, Sequences, FiniteSets, TLC

VARIABLES
  indent_,   \* BinaryReaderLogging::indent_
  stream_,   \* what has been written to *stream_, in order
  reader_,   \* the calls *reader_ (the wrapped consumer) has received, in order
  state,     \* BinaryReaderDelegate::state, set by OnSetState
  calls,     \* the calls the decoder has made on the decorator, in order
  result,    \* what the last decorator call returned to the decoder
  answer,    \* what the wrapped consumer returned in the last call
  status     \* "running", or "aborted" once an assert has failed

vars == <<indent_, stream_, reader_, state, calls, result, answer, status>>

---------------------------------------------------------------------------
(* Program constants *)

INDENT_SIZE == 2

s_indent_len == 142

s_indent_size == 143

---------------------------------------------------------------------------
(* Bounds of the model *)

\* the longest event sequence of a session under Spec
MaxEvents == 4

\* the number of nested BeginModule events SpecDeep descends through
MaxNest == 74

\* SpecDeep delivers its last event under at most ShallowNest or at least
\* DeepNest open modules
ShallowNest == 1

DeepNest == 69

---------------------------------------------------------------------------
(* Values *)

\* Result::Ok / Result::Error
ResultValues == {"Ok", "Error"}

\* the outcomes of reading bytes past the end of s_indent
OutOfBounds == {"spaces", "other"}

\* 32-bit and 64-bit patterns are kept as hexadecimal digits (nibbles), most
\* significant first, since they exceed the range of TLC's integers
Nibble == 0 .. 15

HexChars ==
  <<"0", "1", "2", "3", "4", "5", "6", "7", "8", "9", "a", "b", "c", "d", "e", "f">>

RECURSIVE StripZeros(_)
\* the digits of a number without its leading zeros (one digit at least)
StripZeros(ds) ==
  IF Len(ds) > 1 /\ ds[1] = 0 THEN StripZeros(Tail(ds)) ELSE ds

RECURSIVE HexDigits(_)
\* the hexadecimal digits of a small non-negative integer
HexDigits(n) == IF n < 16 THEN <<n>> ELSE Append(HexDigits(n \div 16), n % 16)

\* the 32-bit pattern ds without its sign bit
AsLow31(ds) ==
  ((((((((ds[1] % 8) * 16 + ds[2]) * 16 + ds[3]) * 16 + ds[4]) * 16
       + ds[5]) * 16 + ds[6]) * 16 + ds[7]) * 16) + ds[8]

\* static_cast<int32_t>(x) of the 32-bit pattern ds (8 digits): two's complement
AsInt32(ds) ==
  LET low == ((((((((ds[1] % 8) * 16 + ds[2]) * 16 + ds[3]) * 16 + ds[4]) * 16
                 + ds[5]) * 16 + ds[6]) * 16 + ds[7]) * 16) + ds[8]
  IN  IF ds[1] >= 8 THEN (low - 1073741824) - 1073741824 ELSE low

\* printf("%x") / PRIx64: lower-case hexadecimal, no padding
FormatHex(ds) == [i \in 1 .. Len(StripZeros(ds)) |-> HexChars[StripZeros(ds)[i] + 1]]

\* printf("%08x"): lower-case hexadecimal, zero-padded to 8 digits
FormatHex08(ds) == [i \in 1 .. Len(ds) |-> HexChars[ds[i] + 1]]

\* printf("%u"), PRIindex, PRIzd, PRIu64, PRIaddress, and "%d" of a signed value
FormatDec(n) == ToString(n)

FormatBool(b) == IF b THEN "true" ELSE "false"

\* printf("%g") of the float or double whose bits are ds (width 8 or 16 digits):
\* the platform's text for zero, infinity and NaN, a decimal approximation else
FormatG(ds) ==
  LET n       == Len(ds)
      neg     == ds[1] >= 8
      expBits == IF n = 8 THEN <<ds[1] % 8, ds[2], ds[3] \div 8>>
                          ELSE <<ds[1] % 8, ds[2], ds[3]>>
      expMax  == IF n = 8 THEN <<7, 15, 1>> ELSE <<7, 15, 15>>
      mant    == IF n = 8 THEN <<ds[3] % 8>> \o SubSeq(ds, 4, n) ELSE SubSeq(ds, 4, n)
      mant0   == \A i \in 1 .. Len(mant) : mant[i] = 0
      sign    == IF neg THEN "-" ELSE ""
  IN  IF expBits = expMax THEN (IF mant0 THEN sign \o "inf" ELSE sign \o "nan")
      ELSE IF expBits = <<0, 0, 0>> /\ mant0 THEN sign \o "0"
      ELSE sign \o "<decimal>"

---------------------------------------------------------------------------
(* Type, IsTypeIndex, GetTypeName (src/type.h, src/common.h) *)

\* a Type is an integer: negative for a primitive type, >= 0 for a signature index
IsTypeIndex(type) == type >= 0

GetTypeName(type) ==
  CASE type = -1  -> "i32"
    [] type = -2  -> "i64"
    [] type = -3  -> "f32"
    [] type = -4  -> "f64"
    [] type = -5  -> "v128"
    [] type = -16 -> "funcref"
    [] type = -64 -> "void"
    [] OTHER      -> "<invalid>"

---------------------------------------------------------------------------
(* The object's state during one handler *)

\* st.r is the result the wrapped consumer will give to this call and st.oob what
\* an out-of-bounds read of s_indent yields in this call
Object(r, oob) ==
  [indent_ |-> indent_, stream_ |-> stream_, reader_ |-> reader_, state |-> state,
   result |-> result, answer |-> answer, status |-> status, r |-> r, oob |-> oob]

\* Stream::WriteData(s_indent, n): n bytes read from the padding buffer
WriteData(st, n) ==
  IF st.status # "running" THEN st
  ELSE [st EXCEPT !.stream_ = Append(@,
         [k |-> "pad", n |-> n,
          oob |-> IF n > s_indent_size THEN st.oob ELSE "none",
          t |-> <<>>, seen |-> Len(st.reader_)])]

\* Stream::Writef(...): the formatted text, as a sequence of tokens: the pieces of
\* the format string and the formatted arguments; the digits of a hexadecimal
\* field and the newline are tokens of their own
Writef(st, text) ==
  IF st.status # "running" THEN st
  ELSE [st EXCEPT !.stream_ = Append(@,
         [k |-> "text", n |-> 0, oob |-> "none", t |-> text,
          seen |-> Len(st.reader_)])]

\* Indent that adds one column instead of INDENT_SIZE
IndentByOne(st) ==
  IF st.status # "running" THEN st
  ELSE [st EXCEPT !.indent_ = @ + 1]

Indent(st) ==
  IF st.status # "running" THEN st
  ELSE [st EXCEPT !.indent_ = @ + INDENT_SIZE]

\* Dedent without its assert
DedentNoAssert(st) ==
  IF st.status # "running" THEN st
  ELSE [st EXCEPT !.indent_ = @ - INDENT_SIZE]

\* Dedent that takes one column instead of INDENT_SIZE
DedentByOne(st) ==
  IF st.status # "running" THEN st
  ELSE LET s1 == [st EXCEPT !.indent_ = @ - 1]
       IN  IF s1.indent_ >= 0 THEN s1 ELSE [s1 EXCEPT !.status = "aborted"]

Dedent(st) ==
  IF st.status # "running" THEN st
  ELSE LET s1 == [st EXCEPT !.indent_ = @ - INDENT_SIZE]
       IN  IF s1.indent_ >= 0 THEN s1 ELSE [s1 EXCEPT !.status = "aborted"]

\* WriteIndent without its chunk loop: the last write alone
WriteIndentLoop_NoChunks(st, i) ==
  IF i > 0 THEN WriteData(st, st.indent_) ELSE st

RECURSIVE WriteIndentLoop(_, _)
\* while (i > s_indent_len) { WriteData(s_indent, s_indent_len); i -= s_indent_len; }
\* if (i > 0) { WriteData(s_indent, indent_); }
WriteIndentLoop(st, i) ==
  IF i > s_indent_len
    THEN WriteIndentLoop(WriteData(st, s_indent_len), i - s_indent_len)
    ELSE IF i > 0 THEN WriteData(st, st.indent_) ELSE st

WriteIndent(st) == WriteIndentLoop(st, st.indent_)

LOGF_NOINDENT(st, text) == Writef(st, text)

\* LOGF whose text stays in a buffer and never reaches the stream
LOGF_Unflushed(st, text) == WriteIndent(st)

LOGF(st, text) == LOGF_NOINDENT(WriteIndent(st), text)

\* Forward, but returning Result::Ok whatever the consumer returned
ForwardReturnsOk(st, name, args) ==
  IF st.status # "running" THEN st
  ELSE [st EXCEPT !.reader_ = Append(@, [name |-> name, args |-> args,
                                         at |-> Len(st.stream_),
                                         depth |-> st.indent_]),
                  !.answer = st.r,
                  !.result = "Ok"]

\* Forward, but invoking the consumer again when it returns Result::Error
ForwardRetry(st, name, args) ==
  IF st.status # "running" THEN st
  ELSE LET call == [name |-> name, args |-> args, at |-> Len(st.stream_),
                    depth |-> st.indent_]
       IN  [st EXCEPT !.reader_ = IF st.r = "Error" THEN @ \o <<call, call>>
                                                     ELSE Append(@, call),
                      !.answer = st.r,
                      !.result = st.r]

\* return reader_->name(args): the consumer receives the call and its result
\* becomes the handler's result; at and depth record how much had been written
\* and what indent_ was when the consumer was invoked
Forward(st, name, args) ==
  IF st.status # "running" THEN st
  ELSE [st EXCEPT !.reader_ = Append(@, [name |-> name, args |-> args,
                                         at |-> Len(st.stream_),
                                         depth |-> st.indent_]),
                  !.answer = st.r,
                  !.result = st.r]

LogType(st, type) ==
  IF IsTypeIndex(type)
    THEN LOGF_NOINDENT(st, <<"funcidx[", FormatDec(type), "]">>)
    ELSE LOGF_NOINDENT(st, <<GetTypeName(type)>>)

RECURSIVE LogTypesLoop_TrailingSeparator(_, _, _, _)
\* the loop of LogTypes with ", " after every element, the last one too
LogTypesLoop_TrailingSeparator(st, i, type_count, types) ==
  IF i < type_count
    THEN LET s1 == LogType(st, types[i + 1])
             s2 == LOGF_NOINDENT(s1, <<", ">>)
         IN  LogTypesLoop_TrailingSeparator(s2, i + 1, type_count, types)
    ELSE st

RECURSIVE LogTypesLoop(_, _, _, _)
\* for (Index i = 0; i < type_count; ++i) { LogType(types[i]); if (i != type_count - 1) ", " }
LogTypesLoop(st, i, type_count, types) ==
  IF i < type_count
    THEN LET s1 == LogType(st, types[i + 1])
             s2 == IF i # type_count - 1 THEN LOGF_NOINDENT(s1, <<", ">>) ELSE s1
         IN  LogTypesLoop(s2, i + 1, type_count, types)
    ELSE st

LogTypes(st, type_count, types) ==
  LET s1 == LOGF_NOINDENT(st, <<"[">>)
      s2 == LogTypesLoop(s1, 0, type_count, types)
  IN  LOGF_NOINDENT(s2, <<"]">>)

\* SPrintLimits printing the max field whatever has_max says
SPrintLimits_AlwaysMax(limits) ==
  <<"initial: ", FormatDec(limits.initial), ", max: ", FormatDec(limits.max)>>

\* SPrintLimits: limits is [has_max, initial, max]
SPrintLimits(limits) ==
  IF limits.has_max
    THEN <<"initial: ", FormatDec(limits.initial), ", max: ", FormatDec(limits.max)>>
    ELSE <<"initial: ", FormatDec(limits.initial)>>

\* GetKindName(ExternalKind), GetRelocTypeName(RelocType), GetSymbolTypeName(SymbolType)
GetKindName(kind) ==
  CASE kind = 0 -> "func" [] kind = 1 -> "table" [] kind = 2 -> "memory"
    [] kind = 3 -> "global" [] kind = 4 -> "event" [] OTHER -> "<error_kind>"

GetRelocTypeName(type) ==
  CASE type = 0 -> "R_WASM_FUNCTION_INDEX_LEB" [] type = 1 -> "R_WASM_TABLE_INDEX_SLEB"
    [] type = 3 -> "R_WASM_MEMORY_ADDR_LEB" [] OTHER -> "<error_reloc_type>"

GetSymbolTypeName(type) ==
  CASE type = 0 -> "func" [] type = 1 -> "data" [] type = 2 -> "global"
    [] type = 3 -> "section" [] type = 4 -> "event" [] OTHER -> "<error_symbol_type>"

---------------------------------------------------------------------------
(* The handlers written out in the source, lines 102-589 *)

\* OnError with a trace line
OnError_Logged(st, error) == Forward(LOGF(st, <<"OnError", "\n">>), "OnError", <<error>>)

OnError(st, error) == Forward(st, "OnError", <<error>>)

OnSetState(st, s) ==
  LET s1 == IF st.status # "running" THEN st ELSE [st EXCEPT !.state = s]
  IN  Forward(s1, "OnSetState", <<s>>)

\* BeginModule taking its Indent() back when the consumer returns Result::Error
BeginModule_UndoOnError(st, version) ==
  LET s1 == LOGF(st, <<"BeginModule(version: ", FormatDec(version), ")", "\n">>)
      s2 == Indent(s1)
      s3 == Forward(s2, "BeginModule", <<version>>)
  IN  IF s3.result = "Error" THEN DedentNoAssert(s3) ELSE s3

BeginModule(st, version) ==
  LET s1 == LOGF(st, <<"BeginModule(version: ", FormatDec(version), ")", "\n">>)
      s2 == Indent(s1)
  IN  Forward(s2, "BeginModule", <<version>>)

BeginSection(st, section_index, section_type, size) ==
  Forward(st, "BeginSection", <<section_index, section_type, size>>)

BeginCustomSection(st, size, section_name) ==
  LET s1 == LOGF(st, <<"BeginCustomSection('", section_name, "', size: ",
                       FormatDec(size), ")", "\n">>)
      s2 == Indent(s1)
  IN  Forward(s2, "BeginCustomSection", <<size, section_name>>)

OnType(st, index, param_count, param_types, result_count, result_types) ==
  LET s1 == LOGF(st, <<"OnType(index: ", FormatDec(index), ", params: ">>)
      s2 == LogTypes(s1, param_count, param_types)
      s3 == LOGF_NOINDENT(s2, <<", results: ">>)
      s4 == LogTypes(s3, result_count, result_types)
      s5 == LOGF_NOINDENT(s4, <<")", "\n">>)
  IN  Forward(s5, "OnType",
              <<index, param_count, param_types, result_count, result_types>>)

OnImport(st, index, module_name, field_name) ==
  LET s1 == LOGF(st, <<"OnImport(index: ", FormatDec(index), ", module: \"",
                       module_name, "\", field: \"", field_name, "\")", "\n">>)
  IN  Forward(s1, "OnImport", <<index, module_name, field_name>>)

OnImportFunc(st, import_index, module_name, field_name, func_index, sig_index) ==
  LET s1 == LOGF(st, <<"OnImportFunc(import_index: ", FormatDec(import_index),
                       ", func_index: ", FormatDec(func_index),
                       ", sig_index: ", FormatDec(sig_index), ")", "\n">>)
  IN  Forward(s1, "OnImportFunc",
              <<import_index, module_name, field_name, func_index, sig_index>>)

OnImportTable(st, import_index, module_name, field_name, table_index, elem_type, elem_limits) ==
  LET buf == SPrintLimits(elem_limits)
      s1  == LOGF(st, <<"OnImportTable(import_index: ", FormatDec(import_index),
                        ", table_index: ", FormatDec(table_index),
                        ", elem_type: ", GetTypeName(elem_type), ", ">> \o buf
                      \o <<")", "\n">>)
  IN  Forward(s1, "OnImportTable",
              <<import_index, module_name, field_name, table_index, elem_type,
                elem_limits>>)

OnImportMemory(st, import_index, module_name, field_name, memory_index, page_limits) ==
  LET buf == SPrintLimits(page_limits)
      s1  == LOGF(st, <<"OnImportMemory(import_index: ", FormatDec(import_index),
                        ", memory_index: ", FormatDec(memory_index), ", ">> \o buf
                      \o <<")", "\n">>)
  IN  Forward(s1, "OnImportMemory",
              <<import_index, module_name, field_name, memory_index, page_limits>>)

OnImportGlobal(st, import_index, module_name, field_name, global_index, type, mutable_) ==
  LET s1 == LOGF(st, <<"OnImportGlobal(import_index: ", FormatDec(import_index),
                       ", global_index: ", FormatDec(global_index),
                       ", type: ", GetTypeName(type), ", mutable: ",
                       FormatBool(mutable_), ")", "\n">>)
  IN  Forward(s1, "OnImportGlobal",
              <<import_index, module_name, field_name, global_index, type, mutable_>>)

OnImportEvent(st, import_index, module_name, field_name, event_index, sig_index) ==
  LET s1 == LOGF(st, <<"OnImportEvent(import_index: ", FormatDec(import_index),
                       ", event_index: ", FormatDec(event_index),
                       ", sig_index: ", FormatDec(sig_index), ")", "\n">>)
  IN  Forward(s1, "OnImportEvent",
              <<import_index, module_name, field_name, event_index, sig_index>>)

OnTable(st, index, elem_type, elem_limits) ==
  LET buf == SPrintLimits(elem_limits)
      s1  == LOGF(st, <<"OnTable(index: ", FormatDec(index), ", elem_type: ",
                        GetTypeName(elem_type), ", ">> \o buf \o <<")", "\n">>)
  IN  Forward(s1, "OnTable", <<index, elem_type, elem_limits>>)

OnMemory(st, index, page_limits) ==
  LET buf == SPrintLimits(page_limits)
      s1  == LOGF(st, <<"OnMemory(index: ", FormatDec(index), ", ">> \o buf
                      \o <<")", "\n">>)
  IN  Forward(s1, "OnMemory", <<index, page_limits>>)

BeginGlobal(st, index, type, mutable_) ==
  LET s1 == LOGF(st, <<"BeginGlobal(index: ", FormatDec(index), ", type: ",
                       GetTypeName(type), ", mutable: ", FormatBool(mutable_),
                       ")", "\n">>)
  IN  Forward(s1, "BeginGlobal", <<index, type, mutable_>>)

OnExport(st, index, kind, item_index, name) ==
  LET s1 == LOGF(st, <<"OnExport(index: ", FormatDec(index), ", kind: ",
                       GetKindName(kind), ", item_index: ", FormatDec(item_index),
                       ", name: \"", name, "\")", "\n">>)
  IN  Forward(s1, "OnExport", <<index, kind, item_index, name>>)

BeginFunctionBody(st, value, size) ==
  LET s1 == LOGF(st, <<"BeginFunctionBody(", FormatDec(value), ", size:",
                       FormatDec(size), ")", "\n">>)
  IN  Forward(s1, "BeginFunctionBody", <<value, size>>)

OnLocalDecl(st, decl_index, count, type) ==
  LET s1 == LOGF(st, <<"OnLocalDecl(index: ", FormatDec(decl_index), ", count: ",
                       FormatDec(count), ", type: ", GetTypeName(type), ")", "\n">>)
  IN  Forward(s1, "OnLocalDecl", <<decl_index, count, type>>)

\* OnBlockExpr, OnIfExpr, OnLoopExpr, OnTryExpr: the same body under four names
SigExpr(st, name, sig_type) ==
  LET s1 == LOGF(st, <<name \o "(sig: ">>)
      s2 == LogType(s1, sig_type)
      s3 == LOGF_NOINDENT(s2, <<")", "\n">>)
  IN  Forward(s3, name, <<sig_type>>)

OnBlockExpr(st, sig_type) == SigExpr(st, "OnBlockExpr", sig_type)

OnBrExpr(st, depth) ==
  LET s1 == LOGF(st, <<"OnBrExpr(depth: ", FormatDec(depth), ")", "\n">>)
  IN  Forward(s1, "OnBrExpr", <<depth>>)

OnBrIfExpr(st, depth) ==
  LET s1 == LOGF(st, <<"OnBrIfExpr(depth: ", FormatDec(depth), ")", "\n">>)
  IN  Forward(s1, "OnBrIfExpr", <<depth>>)

RECURSIVE OnBrTableExprLoop(_, _, _, _)
OnBrTableExprLoop(st, i, num_targets, target_depths) ==
  IF i < num_targets
    THEN LET s1 == LOGF_NOINDENT(st, <<FormatDec(target_depths[i + 1])>>)
             s2 == IF i # num_targets - 1 THEN LOGF_NOINDENT(s1, <<", ">>) ELSE s1
         IN  OnBrTableExprLoop(s2, i + 1, num_targets, target_depths)
    ELSE st

OnBrTableExpr(st, num_targets, target_depths, default_target_depth) ==
  LET s1 == LOGF(st, <<"OnBrTableExpr(num_targets: ", FormatDec(num_targets),
                       ", depths: [">>)
      s2 == OnBrTableExprLoop(s1, 0, num_targets, target_depths)
      s3 == LOGF_NOINDENT(s2, <<"], default: ", FormatDec(default_target_depth),
                                ")", "\n">>)
  IN  Forward(s3, "OnBrTableExpr",
              <<num_targets, target_depths, default_target_depth>>)

OnF32ConstExpr(st, value_bits) ==
  LET s1 == LOGF(st, <<"OnF32ConstExpr(", FormatG(value_bits), " (", "0x", "0", "4">>
                     \o FormatHex(value_bits) \o <<"))", "\n">>)
  IN  Forward(s1, "OnF32ConstExpr", <<value_bits>>)

OnF64ConstExpr(st, value_bits) ==
  LET s1 == LOGF(st, <<"OnF64ConstExpr(", FormatG(value_bits), " (", "0x", "0", "8">>
                     \o FormatHex(value_bits) \o <<"))", "\n">>)
  IN  Forward(s1, "OnF64ConstExpr", <<value_bits>>)

\* OnV128ConstExpr with the lanes rendered in the order 3, 2, 1, 0
OnV128ConstExpr_Reversed(st, value_bits) ==
  LET s1 == LOGF(st, <<"OnV128ConstExpr(", "0x">> \o FormatHex08(value_bits[4])
                     \o <<" ", "0x">> \o FormatHex08(value_bits[3])
                     \o <<" ", "0x">> \o FormatHex08(value_bits[2])
                     \o <<" ", "0x">> \o FormatHex08(value_bits[1]) \o <<")", "\n">>)
  IN  Forward(s1, "OnV128ConstExpr", <<value_bits>>)

\* a v128 is its four 32-bit lanes v[0] .. v[3], here value_bits[1] .. value_bits[4]
OnV128ConstExpr(st, value_bits) ==
  LET s1 == LOGF(st, <<"OnV128ConstExpr(", "0x">> \o FormatHex08(value_bits[1])
                     \o <<" ", "0x">> \o FormatHex08(value_bits[2])
                     \o <<" ", "0x">> \o FormatHex08(value_bits[3])
                     \o <<" ", "0x">> \o FormatHex08(value_bits[4]) \o <<")", "\n">>)
  IN  Forward(s1, "OnV128ConstExpr", <<value_bits>>)

OnI32ConstExpr(st, value) ==
  LET s1 == LOGF(st, <<"OnI32ConstExpr(", FormatDec(value), " (", "0x">>
                     \o FormatHex(HexDigits(value)) \o <<"))", "\n">>)
  IN  Forward(s1, "OnI32ConstExpr", <<value>>)

OnI64ConstExpr(st, value) ==
  LET s1 == LOGF(st, <<"OnI64ConstExpr(", FormatDec(value), " (", "0x">>
                     \o FormatHex(HexDigits(value)) \o <<"))", "\n">>)
  IN  Forward(s1, "OnI64ConstExpr", <<value>>)

OnIfExpr(st, sig_type) == SigExpr(st, "OnIfExpr", sig_type)

OnLoopExpr(st, sig_type) == SigExpr(st, "OnLoopExpr", sig_type)

OnTryExpr(st, sig_type) == SigExpr(st, "OnTryExpr", sig_type)

OnSimdLaneOpExpr(st, opcode, value) ==
  LET s1 == LOGF(st, <<"OnSimdLaneOpExpr (lane: ", FormatDec(value), ")", "\n">>)
  IN  Forward(s1, "OnSimdLaneOpExpr", <<opcode, value>>)

OnSimdShuffleOpExpr(st, opcode, value) ==
  LET s1 == LOGF(st, <<"OnSimdShuffleOpExpr (lane: ", "0x">> \o FormatHex08(value[1])
                     \o <<" ">> \o FormatHex08(value[2])
                     \o <<" ">> \o FormatHex08(value[3])
                     \o <<" ">> \o FormatHex08(value[4]) \o <<")", "\n">>)
  IN  Forward(s1, "OnSimdShuffleOpExpr", <<opcode, value>>)

BeginElemSegment(st, index, table_index, passive, elem_type) ==
  LET s1 == LOGF(st, <<"BeginElemSegment(index: ", FormatDec(index),
                       ", table_index: ", FormatDec(table_index), ", passive: ",
                       FormatBool(passive), ", elem_type: ", GetTypeName(elem_type),
                       ")", "\n">>)
  IN  Forward(s1, "BeginElemSegment", <<index, table_index, passive, elem_type>>)

OnDataSegmentData(st, index, data, size) ==
  LET s1 == LOGF(st, <<"OnDataSegmentData(index:", FormatDec(index), ", size:",
                       FormatDec(size), ")", "\n">>)
  IN  Forward(s1, "OnDataSegmentData", <<index, data, size>>)

\* OnModuleNameSubsection, OnFunctionNameSubsection, OnLocalNameSubsection: the
\* same body under three names
NameSubsection(st, name, index, name_type, subsection_size) ==
  LET s1 == LOGF(st, <<name \o "(index:", FormatDec(index), ", nametype:",
                       FormatDec(name_type), ", size:", FormatDec(subsection_size),
                       ")", "\n">>)
  IN  Forward(s1, name, <<index, name_type, subsection_size>>)

OnModuleNameSubsection(st, index, name_type, subsection_size) ==
  NameSubsection(st, "OnModuleNameSubsection", index, name_type, subsection_size)

OnModuleName(st, name) ==
  LET s1 == LOGF(st, <<"OnModuleName(name: \"", name, "\")", "\n">>)
  IN  Forward(s1, "OnModuleName", <<name>>)

OnFunctionNameSubsection(st, index, name_type, subsection_size) ==
  NameSubsection(st, "OnFunctionNameSubsection", index, name_type, subsection_size)

OnFunctionName(st, index, name) ==
  LET s1 == LOGF(st, <<"OnFunctionName(index: ", FormatDec(index), ", name: \"",
                       name, "\")", "\n">>)
  IN  Forward(s1, "OnFunctionName", <<index, name>>)

OnLocalNameSubsection(st, index, name_type, subsection_size) ==
  NameSubsection(st, "OnLocalNameSubsection", index, name_type, subsection_size)

OnLocalName(st, func_index, local_index, name) ==
  LET s1 == LOGF(st, <<"OnLocalName(func_index: ", FormatDec(func_index),
                       ", local_index: ", FormatDec(local_index), ", name: \"",
                       name, "\")", "\n">>)
  IN  Forward(s1, "OnLocalName", <<func_index, local_index, name>>)

OnInitExprF32ConstExpr(st, index, value_bits) ==
  LET s1 == LOGF(st, <<"OnInitExprF32ConstExpr(index: ", FormatDec(index),
                       ", value: ", FormatG(value_bits), " (", "0x", "0", "4">>
                     \o FormatHex(value_bits) \o <<"))", "\n">>)
  IN  Forward(s1, "OnInitExprF32ConstExpr", <<index, value_bits>>)

OnInitExprF64ConstExpr(st, index, value_bits) ==
  LET s1 == LOGF(st, <<"OnInitExprF64ConstExpr(index: ", FormatDec(index),
                       " value: ", FormatG(value_bits), " (", "0x", "0", "8">>
                     \o FormatHex(value_bits) \o <<"))", "\n">>)
  IN  Forward(s1, "OnInitExprF64ConstExpr", <<index, value_bits>>)

OnInitExprV128ConstExpr(st, index, value_bits) ==
  LET s1 == LOGF(st, <<"OnInitExprV128ConstExpr(index: ", FormatDec(index),
                       " value: ( ", "0x">> \o FormatHex08(value_bits[1])
                     \o <<" ", "0x">> \o FormatHex08(value_bits[2])
                     \o <<" ", "0x">> \o FormatHex08(value_bits[3])
                     \o <<" ", "0x">> \o FormatHex08(value_bits[4]) \o <<"))", "\n">>)
  IN  Forward(s1, "OnInitExprV128ConstExpr", <<index, value_bits>>)

OnInitExprI32ConstExpr(st, index, value) ==
  LET s1 == LOGF(st, <<"OnInitExprI32ConstExpr(index: ", FormatDec(index),
                       ", value: ", FormatDec(value), ")", "\n">>)
  IN  Forward(s1, "OnInitExprI32ConstExpr", <<index, value>>)

OnInitExprI64ConstExpr(st, index, value) ==
  LET s1 == LOGF(st, <<"OnInitExprI64ConstExpr(index: ", FormatDec(index),
                       ", value: ", FormatDec(value), ")", "\n">>)
  IN  Forward(s1, "OnInitExprI64ConstExpr", <<index, value>>)

OnDylinkInfo(st, mem_size, mem_align, table_size, table_align) ==
  LET s1 == LOGF(st, <<"OnDylinkInfo(mem_size: ", FormatDec(mem_size),
                       ", mem_align: ", FormatDec(mem_align), ", table_size: ",
                       FormatDec(table_size), ", table_align: ",
                       FormatDec(table_align), ")", "\n">>)
  IN  Forward(s1, "OnDylinkInfo", <<mem_size, mem_align, table_size, table_align>>)

OnDylinkNeeded(st, so_name) ==
  LET s1 == LOGF(st, <<"OnDylinkNeeded(name: ", so_name, ")", "\n">>)
  IN  Forward(s1, "OnDylinkNeeded", <<so_name>>)

OnRelocCount(st, count, section_index) ==
  LET s1 == LOGF(st, <<"OnRelocCount(count: ", FormatDec(count), ", section: ",
                       FormatDec(section_index), ")", "\n">>)
  IN  Forward(s1, "OnRelocCount", <<count, section_index>>)

\* addend is a 32-bit pattern (8 hexadecimal digits)
OnReloc(st, type, offset, index, addend) ==
  LET signed_addend == AsInt32(addend)
      s1 == LOGF(st, <<"OnReloc(type: ", GetRelocTypeName(type), ", offset: ",
                       FormatDec(offset), ", index: ", FormatDec(index),
                       ", addend: ", FormatDec(signed_addend), ")", "\n">>)
  IN  Forward(s1, "OnReloc", <<type, offset, index, addend>>)

OnSymbol(st, symbol_index, type, flags) ==
  LET s1 == LOGF(st, <<"OnSymbol(type: ", GetSymbolTypeName(type), " flags: ", "0x">>
                     \o FormatHex(HexDigits(flags)) \o <<")", "\n">>)
  IN  Forward(s1, "OnSymbol", <<symbol_index, type, flags>>)

OnDataSymbol(st, index, flags, name, segment, offset, size) ==
  LET s1 == LOGF(st, <<"OnDataSymbol(name: ", name, " flags: ", "0x">>
                     \o FormatHex(HexDigits(flags)) \o <<")", "\n">>)
  IN  Forward(s1, "OnDataSymbol", <<index, flags, name, segment, offset, size>>)

\* OnFunctionSymbol, OnGlobalSymbol, OnEventSymbol: the same body under three names
IndexedSymbol(st, handler, index, flags, name, item_index) ==
  LET s1 == LOGF(st, <<handler \o "(name: ", name, " flags: ", "0x">>
                     \o FormatHex(HexDigits(flags))
                     \o <<" index: ", FormatDec(item_index), ")", "\n">>)
  IN  Forward(s1, handler, <<index, flags, name, item_index>>)

OnFunctionSymbol(st, index, flags, name, func_index) ==
  IndexedSymbol(st, "OnFunctionSymbol", index, flags, name, func_index)

OnGlobalSymbol(st, index, flags, name, global_index) ==
  IndexedSymbol(st, "OnGlobalSymbol", index, flags, name, global_index)

OnSectionSymbol(st, index, flags, section_index) ==
  LET s1 == LOGF(st, <<"OnSectionSymbol(flags: ", "0x">>
                     \o FormatHex(HexDigits(flags))
                     \o <<" index: ", FormatDec(section_index), ")", "\n">>)
  IN  Forward(s1, "OnSectionSymbol", <<index, flags, section_index>>)

OnEventSymbol(st, index, flags, name, event_index) ==
  IndexedSymbol(st, "OnEventSymbol", index, flags, name, event_index)

OnSegmentInfo(st, index, name, alignment, flags) ==
  LET s1 == LOGF(st, <<"OnSegmentInfo(", FormatDec(index), " name: ", name,
                       ", alignment: ", FormatDec(alignment), ", flags: ", "0x">>
                     \o FormatHex(HexDigits(flags)) \o <<")", "\n">>)
  IN  Forward(s1, "OnSegmentInfo", <<index, name, alignment, flags>>)

OnInitFunction(st, priority, func_index) ==
  LET s1 == LOGF(st, <<"OnInitFunction(", FormatDec(func_index), " priority: ",
                       FormatDec(priority), ")", "\n">>)
  IN  Forward(s1, "OnInitFunction", <<priority, func_index>>)

OnComdatBegin(st, name, flags, count) ==
  LET s1 == LOGF(st, <<"OnComdatBegin(", name, ", flags: ", FormatDec(flags),
                       ", count: ", FormatDec(count), ")", "\n">>)
  IN  Forward(s1, "OnComdatBegin", <<name, flags, count>>)

OnComdatEntry(st, kind, index) ==
  LET s1 == LOGF(st, <<"OnComdatEntry(kind: ", FormatDec(kind), ", index: ",
                       FormatDec(index), ")", "\n">>)
  IN  Forward(s1, "OnComdatEntry", <<kind, index>>)

---------------------------------------------------------------------------
(* The handler macros, lines 591-651; name is the handler's name, #name *)

\* DEFINE_BEGIN without its Indent()
DEFINE_BEGIN_NoIndent(st, name, size) ==
  LET s1 == LOGF(st, <<name \o "(", FormatDec(size), ")", "\n">>)
  IN  Forward(s1, name, <<size>>)

DEFINE_BEGIN(st, name, size) ==
  LET s1 == LOGF(st, <<name \o "(", FormatDec(size), ")", "\n">>)
      s2 == Indent(s1)
  IN  Forward(s2, name, <<size>>)

\* DEFINE_END with the line rendered before Dedent()
DEFINE_END_LogFirst(st, name) ==
  LET s1 == LOGF(st, <<name, "\n">>)
      s2 == Dedent(s1)
  IN  Forward(s2, name, <<>>)

\* DEFINE_END that faults when the consumer's last call began a type section and
\* the end event is not EndTypeSection
DEFINE_END_ChecksTypeSection(st, name) ==
  LET s1 == Dedent(st)
      s2 == LOGF(s1, <<name, "\n">>)
      s3 == Forward(s2, name, <<>>)
  IN  IF /\ st.reader_ # <<>>
         /\ st.reader_[Len(st.reader_)].name = "BeginTypeSection"
         /\ name # "EndTypeSection"
        THEN [st EXCEPT !.status = "aborted"]
        ELSE s3

DEFINE_END(st, name) ==
  LET s1 == Dedent(st)
      s2 == LOGF(s1, <<name, "\n">>)
  IN  Forward(s2, name, <<>>)

\* DEFINE_INDEX with the consumer invoked before the line is rendered
DEFINE_INDEX_ForwardFirst(st, name, value) ==
  LET s1 == Forward(st, name, <<value>>)
  IN  LOGF(s1, <<name \o "(", FormatDec(value), ")", "\n">>)

\* DEFINE_INDEX with an Indent() after its line
DEFINE_INDEX_Indenting(st, name, value) ==
  LET s1 == LOGF(st, <<name \o "(", FormatDec(value), ")", "\n">>)
      s2 == Indent(s1)
  IN  Forward(s2, name, <<value>>)

DEFINE_INDEX(st, name, value) ==
  LET s1 == LOGF(st, <<name \o "(", FormatDec(value), ")", "\n">>)
  IN  Forward(s1, name, <<value>>)

DEFINE_INDEX_DESC(st, name, desc, value) ==
  LET s1 == LOGF(st, <<name \o "(" \o desc \o ": ", FormatDec(value), ")", "\n">>)
  IN  Forward(s1, name, <<value>>)

DEFINE_INDEX_INDEX(st, name, desc0, desc1, value0, value1) ==
  LET s1 == LOGF(st, <<name \o "(" \o desc0 \o ": ", FormatDec(value0),
                       ", " \o desc1 \o ": ", FormatDec(value1), ")", "\n">>)
  IN  Forward(s1, name, <<value0, value1>>)

DEFINE_INDEX_INDEX_BOOL(st, name, desc0, desc1, desc2, value0, value1, value2) ==
  LET s1 == LOGF(st, <<name \o "(" \o desc0 \o ": ", FormatDec(value0),
                       ", " \o desc1 \o ": ", FormatDec(value1),
                       ", " \o desc2 \o ": ", FormatBool(value2), ")", "\n">>)
  IN  Forward(s1, name, <<value0, value1, value2>>)

\* an Opcode is [name, code]: what GetName() and GetCode() return
DEFINE_OPCODE(st, name, opcode) ==
  LET s1 == LOGF(st, <<name \o "(\"", opcode.name, "\" (", FormatDec(opcode.code),
                       "))", "\n">>)
  IN  Forward(s1, name, <<opcode>>)

DEFINE_LOAD_STORE_OPCODE(st, name, opcode, alignment_log2, offset) ==
  LET s1 == LOGF(st, <<name \o "(opcode: \"", opcode.name, "\" (",
                       FormatDec(opcode.code), "), align log2: ",
                       FormatDec(alignment_log2), ", offset: ", FormatDec(offset),
                       ")", "\n">>)
  IN  Forward(s1, name, <<opcode, alignment_log2, offset>>)

\* DEFINE0 without its LOGF
DEFINE0_NoLog(st, name) == Forward(st, name, <<>>)

DEFINE0(st, name) ==
  LET s1 == LOGF(st, <<name, "\n">>)
  IN  Forward(s1, name, <<>>)

---------------------------------------------------------------------------
(* The handlers that only forward, lines 796-845 *)

OnOpcode(st, opcode) == Forward(st, "OnOpcode", <<opcode>>)

OnOpcodeBare(st) == Forward(st, "OnOpcodeBare", <<>>)

OnOpcodeIndex(st, value) == Forward(st, "OnOpcodeIndex", <<value>>)

OnOpcodeIndexIndex(st, value, value2) ==
  Forward(st, "OnOpcodeIndexIndex", <<value, value2>>)

OnOpcodeUint32(st, value) == Forward(st, "OnOpcodeUint32", <<value>>)

OnOpcodeUint32Uint32(st, value, value2) ==
  Forward(st, "OnOpcodeUint32Uint32", <<value, value2>>)

OnOpcodeUint64(st, value) == Forward(st, "OnOpcodeUint64", <<value>>)

OnOpcodeF32(st, value) == Forward(st, "OnOpcodeF32", <<value>>)

OnOpcodeF64(st, value) == Forward(st, "OnOpcodeF64", <<value>>)

OnOpcodeV128(st, value) == Forward(st, "OnOpcodeV128", <<value>>)

OnOpcodeBlockSig(st, sig_type) == Forward(st, "OnOpcodeBlockSig", <<sig_type>>)

OnEndFunc(st) == Forward(st, "OnEndFunc", <<>>)

---------------------------------------------------------------------------
(* The handlers the macros define, lines 653-794 *)

DefineBeginNames ==
  {"BeginTypeSection", "BeginImportSection", "BeginFunctionSection",
   "BeginTableSection", "BeginMemorySection", "BeginGlobalSection",
   "BeginExportSection", "BeginStartSection", "BeginCodeSection", "BeginElemSection",
   "BeginDataSection", "BeginDataCountSection", "BeginNamesSection",
   "BeginRelocSection", "BeginDylinkSection", "BeginLinkingSection",
   "BeginEventSection"}

DefineEndNames ==
  {"EndModule", "EndCustomSection", "EndTypeSection", "EndImportSection",
   "EndFunctionSection", "EndTableSection", "EndMemorySection", "EndGlobalSection",
   "EndExportSection", "EndStartSection", "EndCodeSection", "EndElemSection",
   "EndDataSection", "EndDataCountSection", "EndNamesSection", "EndRelocSection",
   "EndDylinkSection", "EndLinkingSection", "EndEventSection"}

DefineIndexNames ==
  {"OnTypeCount", "OnImportCount", "OnFunctionCount", "OnTableCount", "OnMemoryCount",
   "OnGlobalCount", "BeginGlobalInitExpr", "EndGlobalInitExpr", "EndGlobal",
   "OnExportCount", "OnStartFunction", "OnFunctionBodyCount", "EndFunctionBody",
   "OnLocalDeclCount", "OnDataDropExpr", "OnMemoryInitExpr", "OnElemDropExpr",
   "OnTableInitExpr", "OnTableSetExpr", "OnTableGetExpr", "OnTableGrowExpr",
   "OnTableSizeExpr", "OnElemSegmentCount", "BeginElemSegmentInitExpr",
   "EndElemSegmentInitExpr", "OnElemSegmentElemExpr_RefNull", "EndElemSegment",
   "OnDataSegmentCount", "BeginDataSegmentInitExpr", "EndDataSegmentInitExpr",
   "EndDataSegment", "OnDataCount", "OnFunctionNamesCount",
   "OnLocalNameFunctionCount", "OnDylinkNeededCount", "OnSymbolCount",
   "OnSegmentInfoCount", "OnInitFunctionCount", "OnComdatCount", "OnEventCount"}

DefineIndexDescNames ==
  {"OnCallExpr", "OnGlobalGetExpr", "OnGlobalSetExpr", "OnLocalGetExpr",
   "OnLocalSetExpr", "OnLocalTeeExpr", "OnReturnCallExpr", "OnThrowExpr"}

DefineIndexIndexNames ==
  {"OnFunction", "OnBrOnExnExpr", "OnCallIndirectExpr", "OnReturnCallIndirectExpr",
   "OnElemSegmentElemExprCount", "OnElemSegmentElemExpr_RefFunc",
   "OnLocalNameLocalCount", "OnInitExprGlobalGetExpr", "OnEventType"}

DefineIndexIndexBoolNames ==
  {"BeginDataSegment"}

DefineOpcodeNames ==
  {"OnBinaryExpr", "OnCompareExpr", "OnConvertExpr", "OnUnaryExpr", "OnTernaryExpr"}

DefineLoadStoreOpcodeNames ==
  {"OnAtomicLoadExpr", "OnAtomicRmwExpr", "OnAtomicRmwCmpxchgExpr",
   "OnAtomicStoreExpr", "OnAtomicWaitExpr", "OnAtomicNotifyExpr", "OnLoadExpr",
   "OnStoreExpr"}

Define0Names ==
  {"OnCatchExpr", "OnDropExpr", "OnElseExpr", "OnEndExpr", "OnMemoryCopyExpr",
   "OnMemoryFillExpr", "OnMemoryGrowExpr", "OnMemorySizeExpr", "OnTableCopyExpr",
   "OnRefNullExpr", "OnRefIsNullExpr", "OnNopExpr", "OnRethrowExpr", "OnReturnExpr",
   "OnSelectExpr", "OnUnreachableExpr"}

\* the desc arguments of the DEFINE_INDEX_DESC, DEFINE_INDEX_INDEX and
\* DEFINE_INDEX_INDEX_BOOL instantiations
Desc(name) ==
  CASE name = "OnCallExpr" -> <<"func_index">>
    [] name = "OnGlobalGetExpr" -> <<"index">>
    [] name = "OnGlobalSetExpr" -> <<"index">>
    [] name = "OnLocalGetExpr" -> <<"index">>
    [] name = "OnLocalSetExpr" -> <<"index">>
    [] name = "OnLocalTeeExpr" -> <<"index">>
    [] name = "OnReturnCallExpr" -> <<"func_index">>
    [] name = "OnThrowExpr" -> <<"event_index">>
    [] name = "OnFunction" -> <<"index", "sig_index">>
    [] name = "OnBrOnExnExpr" -> <<"depth", "event_index">>
    [] name = "OnCallIndirectExpr" -> <<"sig_index", "table_index">>
    [] name = "OnReturnCallIndirectExpr" -> <<"sig_index", "table_index">>
    [] name = "OnElemSegmentElemExprCount" -> <<"index", "count">>
    [] name = "OnElemSegmentElemExpr_RefFunc" -> <<"index", "func_index">>
    [] name = "OnLocalNameLocalCount" -> <<"index", "count">>
    [] name = "OnInitExprGlobalGetExpr" -> <<"index", "global_index">>
    [] name = "OnEventType" -> <<"index", "sig_index">>
    [] name = "BeginDataSegment" -> <<"index", "memory_index", "passive">>

---------------------------------------------------------------------------
(* The events the decoder may deliver: every handler, with a few arguments *)

Ev(name, args) == [name |-> name, args |-> args]

SameEvent(a, b) == a.name = b.name /\ a.args = b.args

Indexes == {0, 1}

Types == {-1, -4, 0, 3}

TypeLists == {<<>>, <<-1>>, <<-2, 1>>, <<-3, -4, -5>>}

LimitsValues ==
  {[has_max |-> FALSE, initial |-> 1, max |-> 0],
   [has_max |-> FALSE, initial |-> 1, max |-> 7],
   [has_max |-> TRUE, initial |-> 1, max |-> 4],
   [has_max |-> TRUE, initial |-> 0, max |-> 0]}

F32Values ==
  {<<0, 0, 0, 0, 0, 0, 0, 0>>, <<8, 0, 0, 0, 0, 0, 0, 0>>, <<0, 0, 0, 0, 0, 0, 0, 1>>,
   <<7, 15, 7, 15, 15, 15, 15, 15>>, <<7, 15, 8, 0, 0, 0, 0, 0>>,
   <<15, 15, 8, 0, 0, 0, 0, 0>>, <<7, 15, 12, 0, 0, 0, 0, 0>>,
   <<3, 15, 8, 0, 0, 0, 0, 0>>, <<0, 4, 0, 0, 0, 0, 0, 0>>}

F64Values ==
  {<<0, 0, 0, 0, 0, 0, 0, 0, 0, 0, 0, 0, 0, 0, 0, 0>>,
   <<8, 0, 0, 0, 0, 0, 0, 0, 0, 0, 0, 0, 0, 0, 0, 0>>,
   <<0, 0, 0, 0, 0, 0, 0, 0, 0, 0, 0, 0, 0, 0, 0, 1>>,
   <<7, 15, 14, 15, 15, 15, 15, 15, 15, 15, 15, 15, 15, 15, 15, 15>>,
   <<7, 15, 15, 0, 0, 0, 0, 0, 0, 0, 0, 0, 0, 0, 0, 0>>,
   <<15, 15, 15, 0, 0, 0, 0, 0, 0, 0, 0, 0, 0, 0, 0, 0>>,
   <<7, 15, 15, 8, 0, 0, 0, 0, 0, 0, 0, 0, 0, 0, 0, 0>>,
   <<3, 15, 15, 0, 0, 0, 0, 0, 0, 0, 0, 0, 0, 0, 0, 0>>}

V128Values ==
  {<<<<0, 0, 0, 0, 0, 0, 0, 1>>, <<0, 0, 0, 0, 0, 0, 0, 2>>,
     <<0, 0, 0, 0, 0, 0, 0, 3>>, <<0, 0, 0, 0, 0, 0, 0, 4>>>>,
   <<<<13, 14, 10, 13, 11, 14, 14, 15>>, <<0, 0, 0, 0, 0, 0, 0, 0>>,
     <<15, 15, 15, 15, 15, 15, 15, 15>>, <<1, 2, 3, 4, 5, 6, 7, 8>>>>}

AddendValues ==
  {<<0, 0, 0, 0, 0, 0, 0, 0>>, <<0, 0, 0, 0, 0, 0, 0, 5>>,
   <<7, 15, 15, 15, 15, 15, 15, 15>>, <<8, 0, 0, 0, 0, 0, 0, 0>>,
   <<15, 15, 15, 15, 15, 15, 15, 15>>, <<15, 15, 15, 15, 15, 15, 15, 12>>}

Opcodes == {[name |-> "i32.add", code |-> 106], [name |-> "nop", code |-> 1]}

BranchTables == {<<0, <<>>, 0>>, <<1, <<1>>, 0>>, <<3, <<0, 1, 0>>, 1>>}

\* the arguments the decoder passes to the handler called name
ArgsOf(name) ==
  CASE name = "OnError" -> {<<"error">>}
    [] name = "OnSetState" -> {<<"s0">>, <<"s1">>}
    [] name = "BeginModule" -> {<<1>>, <<2>>}
    [] name = "BeginSection" -> {<<0, 1, 12>>}
    [] name = "BeginCustomSection" -> {<<12, "name">>}
    [] name = "OnType" ->
         {<<i, Len(ps), ps, Len(rs), rs>> : i \in {0}, ps \in TypeLists, rs \in TypeLists}
    [] name = "OnImport" -> {<<0, "mod", "field">>}
    [] name \in {"OnImportFunc", "OnImportEvent"} -> {<<0, "mod", "field", 1, 0>>}
    [] name = "OnImportTable" -> {<<0, "mod", "field", 1, -16, l>> : l \in LimitsValues}
    [] name = "OnImportMemory" -> {<<0, "mod", "field", 1, l>> : l \in LimitsValues}
    [] name = "OnImportGlobal" -> {<<0, "mod", "field", 1, -1, b>> : b \in BOOLEAN}
    [] name = "OnTable" -> {<<0, -16, l>> : l \in LimitsValues}
    [] name = "OnMemory" -> {<<0, l>> : l \in LimitsValues}
    [] name = "BeginGlobal" -> {<<0, -1, b>> : b \in BOOLEAN}
    [] name = "OnExport" -> {<<0, k, 1, "name">> : k \in {0, 3}}
    [] name = "BeginFunctionBody" -> {<<0, 12>>}
    [] name = "OnLocalDecl" -> {<<0, 2, -1>>}
    [] name \in {"OnBlockExpr", "OnIfExpr", "OnLoopExpr", "OnTryExpr",
                 "OnOpcodeBlockSig"} -> {<<t>> : t \in Types}
    [] name \in {"OnBrExpr", "OnBrIfExpr"} -> {<<i>> : i \in Indexes}
    [] name = "OnBrTableExpr" -> BranchTables
    [] name \in {"OnF32ConstExpr", "OnOpcodeF32"} -> {<<v>> : v \in F32Values}
    [] name \in {"OnF64ConstExpr", "OnOpcodeF64"} -> {<<v>> : v \in F64Values}
    [] name \in {"OnV128ConstExpr", "OnOpcodeV128"} -> {<<v>> : v \in V128Values}
    [] name \in {"OnI32ConstExpr", "OnI64ConstExpr"} -> {<<0>>, <<255>>}
    [] name = "OnSimdLaneOpExpr" -> {<<o, 3>> : o \in Opcodes}
    [] name = "OnSimdShuffleOpExpr" -> {<<o, v>> : o \in {[name |-> "nop", code |-> 1]},
                                                  v \in V128Values}
    [] name = "BeginElemSegment" -> {<<0, 0, b, -16>> : b \in BOOLEAN}
    [] name = "OnDataSegmentData" -> {<<0, "data", 4>>}
    [] name \in {"OnModuleNameSubsection", "OnFunctionNameSubsection",
                 "OnLocalNameSubsection"} -> {<<0, 1, 12>>}
    [] name \in {"OnModuleName", "OnDylinkNeeded"} -> {<<"name">>}
    [] name = "OnFunctionName" -> {<<0, "name">>}
    [] name = "OnLocalName" -> {<<0, 1, "name">>}
    [] name = "OnInitExprF32ConstExpr" -> {<<0, v>> : v \in F32Values}
    [] name = "OnInitExprF64ConstExpr" -> {<<0, v>> : v \in F64Values}
    [] name = "OnInitExprV128ConstExpr" -> {<<0, v>> : v \in V128Values}
    [] name \in {"OnInitExprI32ConstExpr", "OnInitExprI64ConstExpr"} -> {<<0, 7>>}
    [] name = "OnDylinkInfo" -> {<<1, 2, 3, 4>>}
    [] name = "OnRelocCount" -> {<<1, 2>>}
    [] name = "OnReloc" -> {<<0, 8, 1, a>> : a \in AddendValues}
    [] name = "OnSymbol" -> {<<0, t, 16>> : t \in {0, 1}}
    [] name = "OnDataSymbol" -> {<<0, 16, "name", 1, 2, 3>>}
    [] name \in {"OnFunctionSymbol", "OnGlobalSymbol", "OnEventSymbol"} ->
         {<<0, 16, "name", 1>>}
    [] name = "OnSectionSymbol" -> {<<0, 16, 1>>}
    [] name = "OnSegmentInfo" -> {<<0, "name", 2, 16>>}
    [] name = "OnInitFunction" -> {<<5, 1>>}
    [] name = "OnComdatBegin" -> {<<"name", 0, 1>>}
    [] name = "OnComdatEntry" -> {<<0, 1>>}
    [] name \in DefineBeginNames -> {<<12>>, <<0>>}
    [] name \in DefineEndNames \cup Define0Names \cup {"OnOpcodeBare", "OnEndFunc"} ->
         {<<>>}
    [] name \in DefineIndexNames \cup DefineIndexDescNames
                \cup {"OnOpcodeIndex", "OnOpcodeUint32", "OnOpcodeUint64"} ->
         {<<i>> : i \in Indexes}
    [] name \in DefineIndexIndexNames \cup {"OnOpcodeIndexIndex", "OnOpcodeUint32Uint32"} ->
         {<<0, 1>>}
    [] name \in DefineIndexIndexBoolNames -> {<<0, 1, b>> : b \in BOOLEAN}
    [] name \in DefineOpcodeNames \cup {"OnOpcode"} -> {<<o>> : o \in Opcodes}
    [] name \in DefineLoadStoreOpcodeNames ->
         {<<o, 2, 8>> : o \in {[name |-> "i32.load", code |-> 40]}}

\* the handlers written out in the source
WrittenNames ==
  {"OnError", "OnSetState", "BeginModule", "BeginSection", "BeginCustomSection",
   "OnType", "OnImport", "OnImportFunc", "OnImportTable", "OnImportMemory",
   "OnImportGlobal", "OnImportEvent", "OnTable", "OnMemory", "BeginGlobal",
   "OnExport", "BeginFunctionBody", "OnLocalDecl", "OnBlockExpr", "OnBrExpr",
   "OnBrIfExpr", "OnBrTableExpr", "OnF32ConstExpr", "OnF64ConstExpr",
   "OnV128ConstExpr", "OnI32ConstExpr", "OnI64ConstExpr", "OnIfExpr", "OnLoopExpr",
   "OnTryExpr", "OnSimdLaneOpExpr", "OnSimdShuffleOpExpr", "BeginElemSegment",
   "OnDataSegmentData", "OnModuleNameSubsection", "OnModuleName",
   "OnFunctionNameSubsection", "OnFunctionName", "OnLocalNameSubsection",
   "OnLocalName", "OnInitExprF32ConstExpr", "OnInitExprF64ConstExpr",
   "OnInitExprV128ConstExpr", "OnInitExprI32ConstExpr", "OnInitExprI64ConstExpr",
   "OnDylinkInfo", "OnDylinkNeeded", "OnRelocCount", "OnReloc", "OnSymbol",
   "OnDataSymbol", "OnFunctionSymbol", "OnGlobalSymbol", "OnSectionSymbol",
   "OnEventSymbol", "OnSegmentInfo", "OnInitFunction", "OnComdatBegin",
   "OnComdatEntry", "OnOpcode", "OnOpcodeBare", "OnOpcodeIndex",
   "OnOpcodeIndexIndex", "OnOpcodeUint32", "OnOpcodeUint32Uint32", "OnOpcodeUint64",
   "OnOpcodeF32", "OnOpcodeF64", "OnOpcodeV128", "OnOpcodeBlockSig", "OnEndFunc"}

\* every operation of BinaryReaderLogging
HandlerNames ==
  WrittenNames \cup DefineBeginNames \cup DefineEndNames \cup DefineIndexNames
    \cup DefineIndexDescNames \cup DefineIndexIndexNames \cup DefineIndexIndexBoolNames
    \cup DefineOpcodeNames \cup DefineLoadStoreOpcodeNames \cup Define0Names

AllEvents == UNION {{Ev(name, a) : a \in ArgsOf(name)} : name \in HandlerNames}

\* what the wrapped consumer may return: bool for OnError, nothing for OnSetState,
\* a Result for every other operation
AnswersOf(e) ==
  IF e.name = "OnError" THEN {"true", "false"}
  ELSE IF e.name = "OnSetState" THEN {"void"}
  ELSE ResultValues

---------------------------------------------------------------------------
(* One call of the decorator *)

\* the virtual call e.name(e.args) on the BinaryReaderLogging object st
Dispatch(st, e) ==
  LET n == e.name
      a == e.args
  IN  CASE n = "OnError" -> OnError(st, a[1])
        [] n = "OnSetState" -> OnSetState(st, a[1])
        [] n = "BeginModule" -> BeginModule(st, a[1])
        [] n = "BeginSection" -> BeginSection(st, a[1], a[2], a[3])
        [] n = "BeginCustomSection" -> BeginCustomSection(st, a[1], a[2])
        [] n = "OnType" -> OnType(st, a[1], a[2], a[3], a[4], a[5])
        [] n = "OnImport" -> OnImport(st, a[1], a[2], a[3])
        [] n = "OnImportFunc" -> OnImportFunc(st, a[1], a[2], a[3], a[4], a[5])
        [] n = "OnImportTable" -> OnImportTable(st, a[1], a[2], a[3], a[4], a[5], a[6])
        [] n = "OnImportMemory" -> OnImportMemory(st, a[1], a[2], a[3], a[4], a[5])
        [] n = "OnImportGlobal" -> OnImportGlobal(st, a[1], a[2], a[3], a[4], a[5], a[6])
        [] n = "OnImportEvent" -> OnImportEvent(st, a[1], a[2], a[3], a[4], a[5])
        [] n = "OnTable" -> OnTable(st, a[1], a[2], a[3])
        [] n = "OnMemory" -> OnMemory(st, a[1], a[2])
        [] n = "BeginGlobal" -> BeginGlobal(st, a[1], a[2], a[3])
        [] n = "OnExport" -> OnExport(st, a[1], a[2], a[3], a[4])
        [] n = "BeginFunctionBody" -> BeginFunctionBody(st, a[1], a[2])
        [] n = "OnLocalDecl" -> OnLocalDecl(st, a[1], a[2], a[3])
        [] n = "OnBlockExpr" -> OnBlockExpr(st, a[1])
        [] n = "OnBrExpr" -> OnBrExpr(st, a[1])
        [] n = "OnBrIfExpr" -> OnBrIfExpr(st, a[1])
        [] n = "OnBrTableExpr" -> OnBrTableExpr(st, a[1], a[2], a[3])
        [] n = "OnF32ConstExpr" -> OnF32ConstExpr(st, a[1])
        [] n = "OnF64ConstExpr" -> OnF64ConstExpr(st, a[1])
        [] n = "OnV128ConstExpr" -> OnV128ConstExpr(st, a[1])
        [] n = "OnI32ConstExpr" -> OnI32ConstExpr(st, a[1])
        [] n = "OnI64ConstExpr" -> OnI64ConstExpr(st, a[1])
        [] n = "OnIfExpr" -> OnIfExpr(st, a[1])
        [] n = "OnLoopExpr" -> OnLoopExpr(st, a[1])
        [] n = "OnTryExpr" -> OnTryExpr(st, a[1])
        [] n = "OnSimdLaneOpExpr" -> OnSimdLaneOpExpr(st, a[1], a[2])
        [] n = "OnSimdShuffleOpExpr" -> OnSimdShuffleOpExpr(st, a[1], a[2])
        [] n = "BeginElemSegment" -> BeginElemSegment(st, a[1], a[2], a[3], a[4])
        [] n = "OnDataSegmentData" -> OnDataSegmentData(st, a[1], a[2], a[3])
        [] n = "OnModuleNameSubsection" -> OnModuleNameSubsection(st, a[1], a[2], a[3])
        [] n = "OnModuleName" -> OnModuleName(st, a[1])
        [] n = "OnFunctionNameSubsection" -> OnFunctionNameSubsection(st, a[1], a[2], a[3])
        [] n = "OnFunctionName" -> OnFunctionName(st, a[1], a[2])
        [] n = "OnLocalNameSubsection" -> OnLocalNameSubsection(st, a[1], a[2], a[3])
        [] n = "OnLocalName" -> OnLocalName(st, a[1], a[2], a[3])
        [] n = "OnInitExprF32ConstExpr" -> OnInitExprF32ConstExpr(st, a[1], a[2])
        [] n = "OnInitExprF64ConstExpr" -> OnInitExprF64ConstExpr(st, a[1], a[2])
        [] n = "OnInitExprV128ConstExpr" -> OnInitExprV128ConstExpr(st, a[1], a[2])
        [] n = "OnInitExprI32ConstExpr" -> OnInitExprI32ConstExpr(st, a[1], a[2])
        [] n = "OnInitExprI64ConstExpr" -> OnInitExprI64ConstExpr(st, a[1], a[2])
        [] n = "OnDylinkInfo" -> OnDylinkInfo(st, a[1], a[2], a[3], a[4])
        [] n = "OnDylinkNeeded" -> OnDylinkNeeded(st, a[1])
        [] n = "OnRelocCount" -> OnRelocCount(st, a[1], a[2])
        [] n = "OnReloc" -> OnReloc(st, a[1], a[2], a[3], a[4])
        [] n = "OnSymbol" -> OnSymbol(st, a[1], a[2], a[3])
        [] n = "OnDataSymbol" -> OnDataSymbol(st, a[1], a[2], a[3], a[4], a[5], a[6])
        [] n = "OnFunctionSymbol" -> OnFunctionSymbol(st, a[1], a[2], a[3], a[4])
        [] n = "OnGlobalSymbol" -> OnGlobalSymbol(st, a[1], a[2], a[3], a[4])
        [] n = "OnSectionSymbol" -> OnSectionSymbol(st, a[1], a[2], a[3])
        [] n = "OnEventSymbol" -> OnEventSymbol(st, a[1], a[2], a[3], a[4])
        [] n = "OnSegmentInfo" -> OnSegmentInfo(st, a[1], a[2], a[3], a[4])
        [] n = "OnInitFunction" -> OnInitFunction(st, a[1], a[2])
        [] n = "OnComdatBegin" -> OnComdatBegin(st, a[1], a[2], a[3])
        [] n = "OnComdatEntry" -> OnComdatEntry(st, a[1], a[2])
        [] n = "OnOpcode" -> OnOpcode(st, a[1])
        [] n = "OnOpcodeBare" -> OnOpcodeBare(st)
        [] n = "OnOpcodeIndex" -> OnOpcodeIndex(st, a[1])
        [] n = "OnOpcodeIndexIndex" -> OnOpcodeIndexIndex(st, a[1], a[2])
        [] n = "OnOpcodeUint32" -> OnOpcodeUint32(st, a[1])
        [] n = "OnOpcodeUint32Uint32" -> OnOpcodeUint32Uint32(st, a[1], a[2])
        [] n = "OnOpcodeUint64" -> OnOpcodeUint64(st, a[1])
        [] n = "OnOpcodeF32" -> OnOpcodeF32(st, a[1])
        [] n = "OnOpcodeF64" -> OnOpcodeF64(st, a[1])
        [] n = "OnOpcodeV128" -> OnOpcodeV128(st, a[1])
        [] n = "OnOpcodeBlockSig" -> OnOpcodeBlockSig(st, a[1])
        [] n = "OnEndFunc" -> OnEndFunc(st)
        [] n \in DefineBeginNames -> DEFINE_BEGIN(st, n, a[1])
        [] n \in DefineEndNames -> DEFINE_END(st, n)
        [] n \in DefineIndexNames -> DEFINE_INDEX(st, n, a[1])
        [] n \in DefineIndexDescNames -> DEFINE_INDEX_DESC(st, n, Desc(n)[1], a[1])
        [] n \in DefineIndexIndexNames ->
         DEFINE_INDEX_INDEX(st, n, Desc(n)[1], Desc(n)[2], a[1], a[2])
        [] n \in DefineIndexIndexBoolNames ->
         DEFINE_INDEX_INDEX_BOOL(st, n, Desc(n)[1], Desc(n)[2], Desc(n)[3], a[1], a[2], a[3])
        [] n \in DefineOpcodeNames -> DEFINE_OPCODE(st, n, a[1])
        [] n \in DefineLoadStoreOpcodeNames -> DEFINE_LOAD_STORE_OPCODE(st, n, a[1], a[2], a[3])
        [] n \in Define0Names -> DEFINE0(st, n)

\* The decoder calls the operation e.name with e.args; the consumer answers r.
\* The whole handler runs; a failed assert ends the process before it returns.
Call(e, r, oob) ==
  /\ status = "running"
  /\ LET st == Dispatch(Object(r, oob), e)
     IN  /\ indent_' = st.indent_
         /\ stream_' = st.stream_
         /\ reader_' = st.reader_
         /\ state' = st.state
         /\ result' = st.result
         /\ answer' = st.answer
         /\ status' = st.status
  /\ calls' = Append(calls, e)

\* the constructor: stream_(stream), reader_(forward), indent_(0)
Init ==
  /\ indent_ = 0
  /\ stream_ = <<>>
  /\ reader_ = <<>>
  /\ state = "null"
  /\ calls = <<>>
  /\ result = "none"
  /\ answer = "none"
  /\ status = "running"

---------------------------------------------------------------------------
(* Spec: sessions of at most MaxEvents events, drawn from a few handlers of  *)
(* each shape                                                              *)

SessionEvents ==
  {Ev("BeginModule", <<1>>), Ev("BeginTypeSection", <<12>>),
   Ev("OnTypeCount", <<1>>), Ev("OnType", <<0, 0, <<>>, 1, <<-1>>>>),
   Ev("EndTypeSection", <<>>), Ev("EndModule", <<>>),
   Ev("BeginGlobal", <<0, -1, FALSE>>), Ev("EndGlobal", <<0>>),
   Ev("OnOpcodeBare", <<>>), Ev("OnError", <<"error">>)}

Next ==
  /\ Len(calls) < MaxEvents
  /\ \E e \in SessionEvents : \E r \in AnswersOf(e) : \E oob \in OutOfBounds :
       Call(e, r, oob)

Spec == Init /\ [][Next]_vars

---------------------------------------------------------------------------
(* SpecDeep: the decoder opens up to MaxNest nested modules and then delivers *)
(* any one event of the vocabulary, either near the top level or where the  *)
(* indentation approaches and passes the length of the padding buffer       *)

Descent == Ev("BeginModule", <<1>>)

OnlyDescents == \A i \in 1 .. Len(calls) : SameEvent(calls[i], Descent)

ProbeHere == Len(calls) <= ShallowNest \/ Len(calls) >= DeepNest

NextDeep ==
  /\ OnlyDescents
  /\ Len(calls) <= MaxNest
  /\ \E e \in AllEvents : \E r \in AnswersOf(e) : \E oob \in OutOfBounds :
       /\ IF SameEvent(e, Descent) THEN Len(calls) < MaxNest ELSE ProbeHere
       /\ Call(e, r, oob)

SpecDeep == Init /\ [][NextDeep]_vars

---------------------------------------------------------------------------
(* SpecTypes: the decoder delivers a module that holds one type section, in *)
(* the order the binary format gives: BeginModule, BeginTypeSection, the    *)
(* type count (which a caller may also leave out), up to MaxTypes types,    *)
(* EndTypeSection, EndModule                                                *)

\* the number of OnType events of a type section under SpecTypes
MaxTypes == 1

ResultLists == TypeLists \cup {<<-2>>, <<-4>>}

TypeSectionEvents ==
  {Ev("BeginModule", <<v>>) : v \in {1, 2}}
    \cup {Ev("BeginTypeSection", <<size>>) : size \in {12, 0}}
    \cup {Ev("OnTypeCount", <<n>>) : n \in Indexes}
    \cup {Ev("OnType", <<0, Len(ps), ps, Len(rs), rs>>) : ps \in TypeLists, rs \in ResultLists}
    \cup {Ev("EndTypeSection", <<>>), Ev("EndModule", <<>>)}

\* the events that may follow the calls made so far
FollowersInTypeSection ==
  IF calls = <<>> THEN {"BeginModule"}
  ELSE LET last  == calls[Len(calls)].name
           types == Cardinality({i \in 1 .. Len(calls) : calls[i].name = "OnType"})
       IN  CASE last = "BeginModule" -> {"BeginTypeSection"}
             [] last = "BeginTypeSection" -> {"OnTypeCount", "OnType"}
             [] last = "OnTypeCount" -> {"OnType"}
             [] last = "OnType" ->
                  IF types < MaxTypes THEN {"OnType", "EndTypeSection"}
                                      ELSE {"EndTypeSection"}
             [] last = "EndTypeSection" -> {"EndModule"}
             [] OTHER -> {}

NextTypes ==
  \E e \in TypeSectionEvents : \E r \in AnswersOf(e) : \E oob \in OutOfBounds :
    /\ e.name \in FollowersInTypeSection
    /\ Call(e, r, oob)

SpecTypes == Init /\ [][NextTypes]_vars

---------------------------------------------------------------------------
(* SpecPairs: the decoder delivers up to MaxPairEvents events, each one an   *)
(* indenting begin event or a dedenting end event of any kind, in any order  *)

\* the longest event sequence under SpecPairs
MaxPairEvents == 2

PairEvents ==
  {Ev("BeginModule", <<1>>), Ev("BeginCustomSection", <<12, "name">>)}
    \cup {Ev(name, <<12>>) : name \in DefineBeginNames}
    \cup {Ev(name, <<>>) : name \in DefineEndNames}

NextPairs ==
  /\ Len(calls) < MaxPairEvents
  /\ \E e \in PairEvents : \E r \in AnswersOf(e) : \E oob \in OutOfBounds :
       Call(e, r, oob)

SpecPairs == Init /\ [][NextPairs]_vars

---------------------------------------------------------------------------
(* SpecLoops: the decoder opens up to MaxLoopNest nested modules, which takes *)
(* the depth past twice the length of the padding buffer, and at any depth    *)
(* delivers one event whose handler runs a loop; the reads past s_indent of   *)
(* one run all find the same bytes                                            *)

\* the number of nested BeginModule events SpecLoops descends through
MaxLoopNest == 143

\* the events whose handlers loop over a list, and one of each other shape
LoopEvents ==
  {Ev("OnType", a) : a \in ArgsOf("OnType")}
    \cup {Ev("OnBrTableExpr", a) : a \in ArgsOf("OnBrTableExpr")}
    \cup {Ev("OnNopExpr", <<>>), Ev("EndModule", <<>>), Ev("OnOpcodeBare", <<>>)}

\* what a read past s_indent yields in this run: what the earlier ones yielded
OutOfBoundsOfRun ==
  IF \E i \in 1 .. Len(stream_) : stream_[i].oob # "none"
    THEN {stream_[i].oob : i \in {k \in 1 .. Len(stream_) : stream_[k].oob # "none"}}
    ELSE OutOfBounds

NextLoops ==
  /\ OnlyDescents
  /\ \E e \in LoopEvents \cup {Descent} : \E r \in AnswersOf(e) :
       \E oob \in OutOfBoundsOfRun :
         /\ SameEvent(e, Descent) => Len(calls) < MaxLoopNest
         /\ Call(e, r, oob)

SpecLoops == Init /\ [][NextLoops]_vars

---------------------------------------------------------------------------
(* Vocabulary of the properties *)

\* the end events and the begin event each one closes
EndNames ==
  {"EndCodeSection", "EndCustomSection", "EndDataCountSection",
   "EndDataSection", "EndDataSegment", "EndDataSegmentInitExpr",
   "EndDylinkSection", "EndElemSection", "EndElemSegment",
   "EndElemSegmentInitExpr", "EndEventSection", "EndExportSection",
   "EndFunctionBody", "EndFunctionSection", "EndGlobal",
   "EndGlobalInitExpr", "EndGlobalSection", "EndImportSection",
   "EndLinkingSection", "EndMemorySection", "EndModule",
   "EndNamesSection", "EndRelocSection", "EndStartSection",
   "EndTableSection", "EndTypeSection"}

OpenerOf(name) ==
  CASE name = "EndCodeSection" -> "BeginCodeSection"
    [] name = "EndCustomSection" -> "BeginCustomSection"
    [] name = "EndDataCountSection" -> "BeginDataCountSection"
    [] name = "EndDataSection" -> "BeginDataSection"
    [] name = "EndDataSegment" -> "BeginDataSegment"
    [] name = "EndDataSegmentInitExpr" -> "BeginDataSegmentInitExpr"
    [] name = "EndDylinkSection" -> "BeginDylinkSection"
    [] name = "EndElemSection" -> "BeginElemSection"
    [] name = "EndElemSegment" -> "BeginElemSegment"
    [] name = "EndElemSegmentInitExpr" -> "BeginElemSegmentInitExpr"
    [] name = "EndEventSection" -> "BeginEventSection"
    [] name = "EndExportSection" -> "BeginExportSection"
    [] name = "EndFunctionBody" -> "BeginFunctionBody"
    [] name = "EndFunctionSection" -> "BeginFunctionSection"
    [] name = "EndGlobal" -> "BeginGlobal"
    [] name = "EndGlobalInitExpr" -> "BeginGlobalInitExpr"
    [] name = "EndGlobalSection" -> "BeginGlobalSection"
    [] name = "EndImportSection" -> "BeginImportSection"
    [] name = "EndLinkingSection" -> "BeginLinkingSection"
    [] name = "EndMemorySection" -> "BeginMemorySection"
    [] name = "EndModule" -> "BeginModule"
    [] name = "EndNamesSection" -> "BeginNamesSection"
    [] name = "EndRelocSection" -> "BeginRelocSection"
    [] name = "EndStartSection" -> "BeginStartSection"
    [] name = "EndTableSection" -> "BeginTableSection"
    [] name = "EndTypeSection" -> "BeginTypeSection"

BeginNames == {OpenerOf(n) : n \in EndNames}

RECURSIVE Nesting(_, _, _)
\* the begin events left open after seq[i ..], starting from the open events stack
\* (innermost last); <<"mismatch">> if an end event does not close the innermost one
Nesting(seq, i, stack) ==
  IF i > Len(seq) THEN stack
  ELSE IF seq[i].name \in BeginNames
    THEN Nesting(seq, i + 1, Append(stack, seq[i].name))
  ELSE IF seq[i].name \in EndNames
    THEN IF stack # <<>> /\ stack[Len(stack)] = OpenerOf(seq[i].name)
           THEN Nesting(seq, i + 1, SubSeq(stack, 1, Len(stack) - 1))
           ELSE <<"mismatch">>
  ELSE Nesting(seq, i + 1, stack)

\* every begin event matched by exactly one corresponding end event, properly nested
WellFormed(seq) == Nesting(seq, 1, <<>>) = <<>>

RECURSIVE Flatten(_)
\* the tokens of a sequence of stream entries, in order
Flatten(w) == IF w = <<>> THEN <<>> ELSE Head(w).t \o Flatten(Tail(w))

Count(seq, x) == Cardinality({i \in 1 .. Len(seq) : seq[i] = x})

\* w is one trace line: padding writes, then text that ends in its only newline
OneLine(w) ==
  /\ \E k \in 0 .. Len(w) - 1 :
       /\ \A i \in 1 .. k : w[i].k = "pad"
       /\ \A i \in k + 1 .. Len(w) : w[i].k = "text"
  /\ Count(Flatten(w), "\n") = 1
  /\ Flatten(w)[Len(Flatten(w))] = "\n"

\* the step is a call of the decorator that returns to the decoder
Returned == calls' # calls /\ status' = "running"

ThisCall == calls'[Len(calls')]

\* what the call of this step appends to the stream
NewWrites == SubSeq(stream_', Len(stream_) + 1, Len(stream_'))

\* the call of this step reaches the consumer once, as the decoder made it
ForwardedOnce ==
  /\ Len(reader_') = Len(reader_) + 1
  /\ SubSeq(reader_', 1, Len(reader_)) = reader_
  /\ SameEvent(reader_'[Len(reader_')], ThisCall)

LastCall == calls[Len(calls)]

---------------------------------------------------------------------------
(* Properties *)

\* C1 Transparency: each call of the decorator that returns has invoked the
\* operation of the same name on the wrapped consumer exactly once, with exactly
\* the arguments the decoder passed, and returns exactly what the consumer
\* returned, at every depth.
C1_Transparency ==
  [][Returned => /\ ForwardedOnce
                 /\ result' = answer'
                 /\ answer' \in AnswersOf(ThisCall)]_vars

\* C1 holds with a failing consumer, below the padding buffer's length and past it
C1_Witness ==
  /\ status = "running"
  /\ indent_ > s_indent_len
  /\ LastCall.name = "OnReloc"
  /\ SameEvent(reader_[Len(reader_)], LastCall)
  /\ result = "Error"

\* the raw-opcode routing events and the state-snapshot event
RawOpcodeNames ==
  {"OnOpcode", "OnOpcodeBare", "OnOpcodeIndex", "OnOpcodeIndexIndex", "OnOpcodeUint32",
   "OnOpcodeUint32Uint32", "OnOpcodeUint64", "OnOpcodeF32", "OnOpcodeF64",
   "OnOpcodeV128", "OnOpcodeBlockSig"}

ClaimedSilentNames == RawOpcodeNames \cup {"OnSetState"}

\* the events forwarded without a trace line
SilentNames == ClaimedSilentNames \cup {"OnError", "BeginSection", "OnEndFunc"}

\* C2 as stated: the events forwarded without a trace line are exactly the raw-opcode
\* routing events and OnSetState; every other event writes exactly one
\* newline-terminated trace line per call.
C2_SilentSetAsStated ==
  [][Returned => /\ ForwardedOnce
                 /\ IF ThisCall.name \in ClaimedSilentNames
                      THEN stream_' = stream_
                      ELSE OneLine(NewWrites)]_vars

\* C2 amended: the events forwarded without a trace line are exactly the raw-opcode
\* routing events, OnSetState, OnError, BeginSection and OnEndFunc: each writes
\* nothing and still invokes the consumer; every other event writes exactly one
\* trace line per call, padding followed by text that ends in its only newline.
C2_SilentSet ==
  [][Returned => /\ ForwardedOnce
                 /\ IF ThisCall.name \in SilentNames
                      THEN stream_' = stream_
                      ELSE /\ OneLine(NewWrites)
                           /\ SubSeq(stream_', 1, Len(stream_)) = stream_]_vars

\* a silent event outside the stated set has been forwarded under open modules,
\* after the trace lines of the events before it and with none of its own
C2_Witness ==
  /\ status = "running"
  /\ Len(calls) > DeepNest
  /\ LastCall.name = "OnEndFunc"
  /\ SameEvent(reader_[Len(reader_)], LastCall)
  /\ \A i \in 1 .. Len(stream_) : stream_[i].seen < Len(reader_) - 1

\* C3 Indentation balance: after a well-formed event sequence (every begin event
\* matched by its end event, properly nested, leaf and silent events anywhere,
\* any consumer results) the depth is back at 0, its value at session start.
C3_IndentationBalance ==
  WellFormed(calls) => status = "running" /\ indent_ = 0

\* two nested regions have been opened and closed, the consumer failing at the end
C3_Witness ==
  /\ Len(calls) = 4
  /\ WellFormed(calls)
  /\ calls[1].name = "BeginModule"
  /\ calls[2].name = "BeginTypeSection"
  /\ result = "Error"
  /\ indent_ = 0

RECURSIVE PadBytes(_)
\* the number of bytes the padding writes of w put into the stream
PadBytes(w) ==
  IF w = <<>> THEN 0
  ELSE (IF Head(w).k = "pad" THEN Head(w).n ELSE 0) + PadBytes(Tail(w))

\* every byte a padding write of w takes lies within the spaces of s_indent
OnlySpaces(w) == \A i \in 1 .. Len(w) : w[i].k = "pad" => w[i].n <= s_indent_len

\* the depth WriteIndent is called at by the call of this step: the end events of
\* DEFINE_END render after Dedent, every other event renders at the depth it finds
DepthAtRender == IF ThisCall.name \in DefineEndNames THEN indent_' ELSE indent_

\* C4 as stated: WriteIndent writes exactly `depth` columns of whitespace, all of
\* them spaces of the padding buffer, at every depth.
C4_EmitPrefix ==
  [][Returned /\ ThisCall.name \notin SilentNames =>
       /\ PadBytes(NewWrites) = DepthAtRender
       /\ OnlySpaces(NewWrites)]_vars

\* the 32-bit and 64-bit floating-point constant events
FloatNames ==
  {"OnF32ConstExpr", "OnF64ConstExpr", "OnInitExprF32ConstExpr",
   "OnInitExprF64ConstExpr"}

RECURSIVE HexRun(_)
\* the hexadecimal digits that toks starts with, as a parser of numbers reads them
HexRun(toks) ==
  IF toks # <<>> /\ (\E d \in 1 .. 16 : HexChars[d] = Head(toks))
    THEN <<(CHOOSE d \in 1 .. 16 : HexChars[d] = Head(toks)) - 1>> \o HexRun(Tail(toks))
    ELSE <<>>

\* the number after the first "0x" of a line, digit by digit
HexField(toks) ==
  LET at == CHOOSE i \in 1 .. Len(toks) :
              toks[i] = "0x" /\ \A j \in 1 .. i - 1 : toks[j] # "0x"
  IN  HexRun(SubSeq(toks, at + 1, Len(toks)))

\* two digit sequences denote the same number
SameNumber(a, b) == StripZeros(a) = StripZeros(b)

\* C5 as stated: the hexadecimal field of a floating-point constant's line, parsed
\* back as a hexadecimal number, is the bit pattern that was passed.
C5_LosslessHexField ==
  [][Returned /\ ThisCall.name \in FloatNames =>
       SameNumber(HexField(Flatten(NewWrites)), ThisCall.args[Len(ThisCall.args)])]_vars

\* the depth a trace line w was rendered at: WriteIndent writes nothing at depth 0
\* and otherwise ends with a write whose length is the depth it was called at
RenderDepth(w) ==
  LET pads == SelectSeq(w, LAMBDA x : x.k = "pad")
  IN  IF pads = <<>> THEN 0 ELSE pads[Len(pads)].n

\* what the j-th call wrote: the writes between the forwards of calls j - 1 and j
LineOfCall(j) == SelectSeq(stream_, LAMBDA x : x.seen = j - 1)

\* the begin events of a module, a section and a custom section
IndentingBeginNames == {"BeginModule", "BeginCustomSection"} \cup DefineBeginNames

\* the begin events of a function body, a global, a segment and an init expression
FlatBeginNames == BeginNames \ IndentingBeginNames

\* the begin events the claim names
StatedBeginNames ==
  IndentingBeginNames \cup
    {"BeginFunctionBody", "BeginGlobal", "BeginElemSegment", "BeginDataSegment"}

NestedDeeper ==
  /\ calls # <<>>
  /\ LastCall.name \in IndentingBeginNames
  /\ ThisCall.name \notin SilentNames \cup DefineEndNames
  => RenderDepth(NewWrites) = RenderDepth(LineOfCall(Len(calls))) + INDENT_SIZE

FlatEndNames == EndNames \ DefineEndNames

\* the j-th call's padding writes, by length
PadLengths(j) ==
  LET pads == SelectSeq(LineOfCall(j), LAMBDA x : x.k = "pad")
  IN  [i \in 1 .. Len(pads) |-> pads[i].n]

C8_ConsumerFailure ==
  [][Returned /\ answer' = "Error" /\ ThisCall.name \notin SilentNames =>
       /\ result' = "Error"
       /\ ForwardedOnce
       /\ OneLine(NewWrites)
       /\ \A i \in 1 .. Len(NewWrites) : NewWrites[i].seen = Len(reader_)
       /\ reader_'[Len(reader_')].at = Len(stream_')
       /\ SubSeq(stream_', 1, Len(stream_)) = stream_]_vars

\* the consumer has failed on an end event and the end line is in the stream
C8_Witness ==
  /\ status = "running"
  /\ Len(calls) > DeepNest
  /\ LastCall.name = "EndModule"
  /\ result = "Error"
  /\ Flatten(LineOfCall(Len(calls))) = <<"EndModule", "\n">>

\* C9 OnError: the call is forwarded with the same error and the consumer's
\* result is returned; nothing is written and the depth stays as it is.
C9_OnError ==
  [][Returned /\ ThisCall.name = "OnError" =>
       /\ ForwardedOnce
       /\ result' = answer'
       /\ answer' \in {"true", "false"}
       /\ stream_' = stream_
       /\ indent_' = indent_]_vars

\* OnError has been forwarded inside an open region, both results occurring
C9_Witness ==
  /\ Len(calls) = 3
  /\ calls[1].name = "BeginModule"
  /\ calls[2].name = "OnError"
  /\ LastCall.name = "OnError"
  /\ result = "false"
  /\ indent_ = INDENT_SIZE
  /\ Len(reader_) = 3
  /\ Len(stream_) = 1

\* C10 Nesting invariant: the depth is never negative while the process runs; an
\* end event of DEFINE_END received at depth 0 fails the assert of Dedent, with
\* nothing written for it and the consumer not invoked.
C10_NestingInvariant ==
  [][/\ status' = "running" => indent_' >= 0
     /\ calls' # calls /\ ThisCall.name \in DefineEndNames /\ indent_ = 0 =>
          /\ status' = "aborted"
          /\ stream_' = stream_
          /\ reader_' = reader_
          /\ result' = result]_vars

\* an end event arrived at depth 0 after a region was opened and closed
C10_Witness ==
  /\ status = "aborted"
  /\ Len(calls) = 3
  /\ calls[1].name = "BeginModule"
  /\ calls[2].name = "EndModule"
  /\ LastCall.name = "EndTypeSection"
  /\ Len(reader_) = 2
  /\ Len(stream_) = 2

\* two event sequences are the same calls with the same arguments in the same order
SameEvents(a, b) ==
  Len(a) = Len(b) /\ \A i \in 1 .. Len(a) : SameEvent(a[i], b[i])

\* the trace line of the j-th call: its indent and its text
TraceLine(j) ==
  [indent |-> RenderDepth(LineOfCall(j)), text |-> Flatten(LineOfCall(j))]

\* the trace, line by line, one entry per call
TraceLines == [j \in 1 .. Len(calls) |-> TraceLine(j)]

\* a trace line with the given indent and text
Line(indent, text) == [indent |-> indent, text |-> text]

\* the scenario's events: a module of version 1 with a type section of 12 bytes
\* that declares one type with no parameters and one result of type t
Scenario5(t) ==
  <<Ev("BeginModule", <<1>>), Ev("BeginTypeSection", <<12>>),
    Ev("OnType", <<0, 0, <<>>, 1, <<t>>>>), Ev("EndTypeSection", <<>>),
    Ev("EndModule", <<>>)>>

\* the scenario as a decoder delivers it, the type count before the type
Scenario6(t) ==
  <<Ev("BeginModule", <<1>>), Ev("BeginTypeSection", <<12>>), Ev("OnTypeCount", <<1>>),
    Ev("OnType", <<0, 0, <<>>, 1, <<t>>>>), Ev("EndTypeSection", <<>>),
    Ev("EndModule", <<>>)>>

OnTypeLine(t) ==
  Line(4, <<"OnType(index: ", "0", ", params: ", "[", "]", ", results: ", "[",
            GetTypeName(t), "]", ")", "\n">>)

PrimitiveTypes == {-1, -2, -4}

\* C11 as stated: the five events BeginModule(1), BeginTypeSection(12), OnType,
\* EndTypeSection, EndModule produce six lines, a line for the type count among
\* them after the OnType line, while the consumer receives the five calls.
C11_ScenarioAsStated ==
  \A t \in PrimitiveTypes :
    status = "running" /\ SameEvents(calls, Scenario5(t)) =>
      /\ Count(Flatten(stream_), "\n") = 6
      /\ SameEvents(reader_, calls)

\* C11 amended: the five events produce five lines, in order BeginModule at indent
\* 0, BeginTypeSection at indent 2, OnType at indent 4 with `params: []` and
\* `results: [<type>]`, EndTypeSection at indent 2 and EndModule at indent 0, and
\* no line for a type count; a type-count line appears only when the decoder
\* delivers OnTypeCount(1), at indent 4 where it was delivered (before OnType),
\* which makes six events and six lines.  The consumer receives the identical
\* calls with identical arguments in the identical order, whatever it returns.
C11_Scenario ==
  \A t \in PrimitiveTypes :
    /\ status = "running" /\ SameEvents(calls, Scenario5(t)) =>
         /\ TraceLines = <<Line(0, <<"BeginModule(version: ", "1", ")", "\n">>),
                           Line(2, <<"BeginTypeSection(", "12", ")", "\n">>),
                           OnTypeLine(t),
                           Line(2, <<"EndTypeSection", "\n">>),
                           Line(0, <<"EndModule", "\n">>)>>
         /\ Count(Flatten(stream_), "\n") = 5
         /\ SameEvents(reader_, calls)
    /\ status = "running" /\ SameEvents(calls, Scenario6(t)) =>
         /\ TraceLines = <<Line(0, <<"BeginModule(version: ", "1", ")", "\n">>),
                           Line(2, <<"BeginTypeSection(", "12", ")", "\n">>),
                           Line(4, <<"OnTypeCount(", "1", ")", "\n">>),
                           OnTypeLine(t),
                           Line(2, <<"EndTypeSection", "\n">>),
                           Line(0, <<"EndModule", "\n">>)>>
         /\ Count(Flatten(stream_), "\n") = 6
         /\ SameEvents(reader_, calls)

\* the scenario has run to its end without a type count, the consumer failing on
\* the last event
C11_Witness ==
  /\ status = "running"
  /\ SameEvents(calls, Scenario5(-4))
  /\ Len(reader_) = 5
  /\ indent_ = 0
  /\ result = "Error"

\* the number of calls so far whose name is in names
CallsOf(names) == Cardinality({i \in 1 .. Len(calls) : calls[i].name \in names})

\* C12 as stated: wherever the decoder stops, the depth is 0 if and only if every
\* structural region that was begun has been closed by its matching end event.
C12_TerminalStateAsStated ==
  status = "running" => (indent_ = 0 <=> WellFormed(calls))

\* C12 amended: wherever the decoder stops, the depth is INDENT_SIZE times the
\* number of modules, sections and custom sections begun less the number of
\* DEFINE_END end events received, so it is 0 if and only if these two numbers are
\* equal; it is 0 when every region begun has been closed by its matching end
\* event, and may be 0 as well while a function body, a global, a segment or an
\* init expression is open or after an end event of another kind of region.
C12_TerminalState ==
  status = "running" =>
    /\ indent_ = INDENT_SIZE * (CallsOf(IndentingBeginNames) - CallsOf(DefineEndNames))
    /\ indent_ = 0 <=> CallsOf(IndentingBeginNames) = CallsOf(DefineEndNames)
    /\ WellFormed(calls) => indent_ = 0

\* the decoder stops after an error at depth 0 with a global begun inside a
\* module and never ended
C12_Witness ==
  /\ status = "running"
  /\ Len(calls) = 4
  /\ calls[1].name = "BeginModule"
  /\ calls[2].name = "BeginGlobal"
  /\ calls[3].name = "EndModule"
  /\ LastCall.name = "OnError"
  /\ ~WellFormed(calls)
  /\ indent_ = 0

\* the calls the decoder has made that have returned
ReturnedCalls ==
  IF status = "running" THEN calls ELSE SubSeq(calls, 1, Len(calls) - 1)

\* the number of writes made before the consumer received its j-th call
WritesBefore(j) == Cardinality({i \in 1 .. Len(stream_) : stream_[i].seen < j})

\* C13 No buffering or reordering: the consumer has received exactly the calls
\* that have returned, one each, in the order the decoder made them; the writes
\* in the stream are in the order of their events; the line of a call (one whole
\* line, or none for a silent event) is in the stream when the consumer receives
\* that call and nothing of it is written afterwards.
C13_NoBuffering ==
  /\ SameEvents(reader_, ReturnedCalls)
  /\ \A i \in 1 .. Len(stream_) :
       /\ stream_[i].seen < Len(calls)
       /\ i > 1 => stream_[i - 1].seen <= stream_[i].seen
  /\ \A j \in 1 .. Len(reader_) :
       /\ reader_[j].at = WritesBefore(j)
       /\ IF calls[j].name \in SilentNames THEN LineOfCall(j) = <<>>
                                           ELSE OneLine(LineOfCall(j))

\* a session of four events, a silent one among them, has gone through
C13_Witness ==
  /\ status = "running"
  /\ Len(calls) = 4
  /\ calls[1].name = "BeginModule"
  /\ calls[2].name = "OnOpcodeBare"
  /\ calls[3].name = "OnTypeCount"
  /\ calls[4].name = "EndModule"
  /\ Len(reader_) = 4
  /\ Count(Flatten(stream_), "\n") = 3

\* the line of this step's call is whole and in the stream when the consumer is
\* invoked, which happens once, after the last write
RenderedThenForwarded ==
  /\ OneLine(NewWrites)
  /\ \A i \in 1 .. Len(NewWrites) : NewWrites[i].seen = Len(reader_)
  /\ Len(reader_') = Len(reader_) + 1
  /\ reader_'[Len(reader_')].at = Len(stream_')

LeafNames == HandlerNames \ (BeginNames \cup EndNames \cup SilentNames)

\* C15 Leaf events render their line with the prefix of the current depth and
\* make no depth transition: after a leaf event, and after a silently forwarded
\* event, the depth is what it was before.
C15_LeafNoTransition ==
  [][Returned /\ ThisCall.name \in LeafNames \cup SilentNames =>
       /\ indent_' = indent_
       /\ ThisCall.name \in LeafNames =>
            /\ OneLine(NewWrites)
            /\ RenderDepth(NewWrites) = indent_]_vars

\* a leaf event has been rendered under open modules, at their depth, which it
\* has left as it was
C15_Witness ==
  /\ status = "running"
  /\ Len(calls) > DeepNest
  /\ LastCall.name = "OnTypeCount"
  /\ indent_ = INDENT_SIZE * (Len(calls) - 1)
  /\ RenderDepth(LineOfCall(Len(calls))) = indent_

\* the events that render a 128-bit vector
V128Names == {"OnV128ConstExpr", "OnInitExprV128ConstExpr", "OnSimdShuffleOpExpr"}

IsHexDigit(tok) == \E d \in 1 .. 16 : HexChars[d] = tok

RECURSIVE SplitWords(_, _)
\* the hexadecimal words of toks, as a reader of the line separates them: a word
\* is a run of digits, words are set apart by " " and may carry the mark "0x",
\* and the list ends at the first other token; word is the word being read
SplitWords(toks, word) ==
  LET done == IF word = <<>> THEN <<>> ELSE <<word>>
  IN  IF toks = <<>> THEN done
      ELSE IF IsHexDigit(Head(toks))
        THEN SplitWords(Tail(toks), word \o HexRun(<<Head(toks)>>))
      ELSE IF Head(toks) \in {" ", "0x"} THEN done \o SplitWords(Tail(toks), <<>>)
      ELSE done

\* the hexadecimal words of a line, from its first "0x" on
HexWords(toks) ==
  LET at == CHOOSE i \in 1 .. Len(toks) :
              toks[i] = "0x" /\ \A j \in 1 .. i - 1 : toks[j] # "0x"
  IN  SplitWords(SubSeq(toks, at, Len(toks)), <<>>)

\* C16 Vector lane order: OnV128ConstExpr, OnInitExprV128ConstExpr and
\* OnSimdShuffleOpExpr render the vector as four separate hexadecimal words, the
\* lanes 0, 1, 2, 3 in this order, each word the lane's value, and the consumer
\* receives the same four lanes.
C16_VectorLaneOrder ==
  [][Returned /\ ThisCall.name \in V128Names =>
       LET value == ThisCall.args[Len(ThisCall.args)]
           words == HexWords(Flatten(NewWrites))
       IN  /\ Len(words) = 4
           /\ \A lane \in 1 .. 4 : /\ Len(words[lane]) = 8
                                   /\ SameNumber(words[lane], value[lane])
           /\ ForwardedOnce
           /\ reader_'[Len(reader_')].args[Len(ThisCall.args)] = value]_vars

\* a vector whose four lanes differ has been rendered and forwarded
C16_Witness ==
  /\ status = "running"
  /\ calls # <<>>
  /\ LastCall.name = "OnSimdShuffleOpExpr"
  /\ \A i, j \in 1 .. 4 : i # j => LastCall.args[2][i] # LastCall.args[2][j]
  /\ HexWords(Flatten(LineOfCall(Len(calls)))) = LastCall.args[2]
  /\ reader_[Len(reader_)].args[2] = LastCall.args[2]

RECURSIVE ValueOf(_)
\* the number a sequence of hexadecimal digits denotes (below 2^31)
ValueOf(ds) ==
  IF ds = <<>> THEN 0 ELSE ValueOf(SubSeq(ds, 1, Len(ds) - 1)) * 16 + ds[Len(ds)]

\* the two's-complement value of the unsigned 32-bit number ds: ds itself below
\* 2^31, and ds - 2^32 = -(2^32 - 1 - ds) - 1 from 2^31 on
SignedValue(ds) ==
  IF ds[1] < 8 THEN ValueOf(ds)
  ELSE (0 - ValueOf([i \in 1 .. Len(ds) |-> 15 - ds[i]])) - 1

\* the token that follows the token label on a line
FieldAfter(toks, label) ==
  toks[(CHOOSE i \in 1 .. Len(toks) - 1 : toks[i] = label) + 1]

\* C17 Signed reinterpretation: OnReloc renders the addend as the two's-complement
\* signed value of its 32 bits, in decimal, and the consumer receives the
\* unsigned addend as the decoder passed it.
C17_SignedAddend ==
  [][Returned /\ ThisCall.name = "OnReloc" =>
       /\ FieldAfter(Flatten(NewWrites), ", addend: ") =
            ToString(SignedValue(ThisCall.args[4]))
       /\ ForwardedOnce
       /\ reader_'[Len(reader_')].args[4] = ThisCall.args[4]]_vars

\* the addend 0xfffffffc has been rendered as -4 and forwarded as 0xfffffffc
C17_Witness ==
  /\ status = "running"
  /\ calls # <<>>
  /\ LastCall.name = "OnReloc"
  /\ LastCall.args[4] = <<15, 15, 15, 15, 15, 15, 15, 12>>
  /\ FieldAfter(Flatten(LineOfCall(Len(calls))), ", addend: ") = "-4"
  /\ reader_[Len(reader_)].args[4] = <<15, 15, 15, 15, 15, 15, 15, 12>>

\* the events that carry a limits descriptor, as their last argument
LimitsNames == {"OnTable", "OnMemory", "OnImportTable", "OnImportMemory"}

\* the limits of a line: from the token "initial: " to the closing parenthesis
LimitsField(toks) ==
  SubSeq(toks, CHOOSE i \in 1 .. Len(toks) : toks[i] = "initial: ", Len(toks) - 2)

\* C18 Limits formatting: in OnTable, OnMemory, OnImportTable and OnImportMemory
\* limits without a maximum render as `initial: <N>` and limits with a maximum as
\* `initial: <N>, max: <M>`, in decimal; no max field is printed when has_max is
\* false, whatever max holds.
C18_LimitsFormatting ==
  [][Returned /\ ThisCall.name \in LimitsNames =>
       LET limits == ThisCall.args[Len(ThisCall.args)]
           toks   == Flatten(NewWrites)
       IN  /\ Count(toks, "initial: ") = 1
           /\ SubSeq(toks, Len(toks) - 1, Len(toks)) = <<")", "\n">>
           /\ IF limits.has_max
                THEN LimitsField(toks) = <<"initial: ", ToString(limits.initial),
                                           ", max: ", ToString(limits.max)>>
                ELSE /\ LimitsField(toks) = <<"initial: ", ToString(limits.initial)>>
                     /\ Count(toks, ", max: ") = 0]_vars

\* limits whose max field holds 7 while has_max is false have been rendered
\* without it
C18_Witness ==
  /\ status = "running"
  /\ calls # <<>>
  /\ LastCall.name = "OnImportMemory"
  /\ LastCall.args[5] = [has_max |-> FALSE, initial |-> 1, max |-> 7]
  /\ LimitsField(Flatten(LineOfCall(Len(calls)))) = <<"initial: ", "1">>

\* a type descriptor as the claim renders it: the indexed-function-type marker
\* with the index for a signature index, the primitive type's name otherwise
TypeText(type) ==
  IF type >= 0 THEN <<"funcidx[", ToString(type), "]">> ELSE <<GetTypeName(type)>>

RECURSIVE TypeListItems(_)
\* the element renderings in order, ", " between them and nowhere else
TypeListItems(types) ==
  IF types = <<>> THEN <<>>
  ELSE IF Len(types) = 1 THEN TypeText(types[1])
  ELSE TypeText(types[1]) \o <<", ">> \o TypeListItems(Tail(types))

TypeListText(types) == <<"[">> \o TypeListItems(types) \o <<"]">>

\* the events that render one type descriptor
SigNames == {"OnBlockExpr", "OnIfExpr", "OnLoopExpr", "OnTryExpr"}

\* the tokens of toks between the tokens from and to
Between(toks, from, to) ==
  SubSeq(toks, (CHOOSE i \in 1 .. Len(toks) : toks[i] = from) + 1,
               (CHOOSE i \in 1 .. Len(toks) : toks[i] = to) - 1)

\* C19 Type list rendering: OnType renders its parameter list and its result list
\* each as `[`, the elements in order separated by `, `, `]`, the empty list as
\* `[]`; an element that is a signature index renders as `funcidx[<index>]`, any
\* other as its primitive type name, in a list and where a single descriptor is
\* rendered (OnBlockExpr, OnIfExpr, OnLoopExpr, OnTryExpr).
C19_TypeListRendering ==
  [][/\ Returned /\ ThisCall.name = "OnType" =>
          LET toks == Flatten(NewWrites)
          IN  /\ Between(toks, ", params: ", ", results: ") =
                   TypeListText(ThisCall.args[3])
              /\ SubSeq(toks, (CHOOSE i \in 1 .. Len(toks) : toks[i] = ", results: ") + 1,
                              Len(toks) - 2) = TypeListText(ThisCall.args[5])
     /\ Returned /\ ThisCall.name \in SigNames =>
          LET toks == Flatten(NewWrites)
          IN  SubSeq(toks, 2, Len(toks) - 2) = TypeText(ThisCall.args[1])]_vars

\* a type with no parameters and three results, and one whose lists hold a
\* signature index, have been rendered
C19_Witness ==
  /\ status = "running"
  /\ calls # <<>>
  /\ LastCall.name = "OnType"
  /\ LastCall.args[3] = <<>>
  /\ LastCall.args[5] = <<-2, 1>>
  /\ Flatten(LineOfCall(Len(calls))) =
       <<"OnType(index: ", "0", ", params: ", "[", "]", ", results: ",
         "[", "i64", ", ", "funcidx[", "1", "]", "]", ")", "\n">>

\* what the call of this step leaves in a second run that has seen the same
\* events so far, when the consumer answers r2 and a read past s_indent yields oob2
SecondRun(r2, oob2) == Dispatch(Object(r2, oob2), ThisCall)

\* C20 as stated: two runs fed the same events, their consumers returning
\* different results, write the same bytes to the stream and are at the same
\* depth after every event.
C20_Independence ==
  [][calls' # calls =>
       \A r2 \in AnswersOf(ThisCall) : \A oob2 \in OutOfBounds :
         /\ SecondRun(r2, oob2).stream_ = stream_'
         /\ SecondRun(r2, oob2).indent_ = indent_'
         /\ SecondRun(r2, oob2).status = status']_vars

\* C20 where WriteIndent stays within s_indent: up to a depth of s_indent_len
\* columns the writes and the depth after an event are the same in two runs,
\* whatever the two consumers return; the depth is the same at every depth.
C20_IndependenceWithinBuffer ==
  [][calls' # calls =>
       \A r2 \in AnswersOf(ThisCall) : \A oob2 \in OutOfBounds :
         /\ DepthAtRender <= s_indent_len => SecondRun(r2, oob2).stream_ = stream_'
         /\ SecondRun(r2, oob2).indent_ = indent_'
         /\ SecondRun(r2, oob2).status = status']_vars

\* C21 Unmatched enter is tolerated: an indenting begin event raises the depth
\* before it forwards and keeps it raised whatever the consumer returns, failure
\* included, and the process runs on (nothing faults if the decoder stops there);
\* a line rendered right after it by an event that is not a dedenting end event
\* is written at the raised depth.
C21_UnmatchedEnter ==
  [][/\ calls' # calls /\ ThisCall.name \in IndentingBeginNames =>
          /\ status' = "running"
          /\ indent_' = indent_ + INDENT_SIZE
          /\ reader_'[Len(reader_')].depth = indent_ + INDENT_SIZE
          /\ result' = answer'
     /\ (/\ Returned /\ calls # <<>>
         /\ LastCall.name \in IndentingBeginNames /\ result = "Error"
         /\ ThisCall.name \notin SilentNames \cup DefineEndNames)
        => /\ RenderDepth(NewWrites) = indent_
           /\ indent_ = RenderDepth(LineOfCall(Len(calls))) + INDENT_SIZE]_vars

\* a module has been begun under open modules, the consumer has failed on it,
\* and the depth is one level above the depth of its line
C21_Witness ==
  /\ status = "running"
  /\ Len(calls) > DeepNest
  /\ LastCall.name = "BeginModule"
  /\ result = "Error"
  /\ reader_[Len(reader_)].depth = indent_
  /\ indent_ = RenderDepth(LineOfCall(Len(calls))) + INDENT_SIZE

\* C22 The session state is a depth counter, not a stack of open region kinds: a
\* dedenting end event received at a depth above 0 lowers the depth by one level,
\* renders its line there and is forwarded, whatever the events before it were;
\* right after an indenting begin event of any kind, an end event of any kind puts
\* the depth back to that of the begin line, and no fault follows from a begin
\* and an end of different kinds.
C22_DepthCounterOnly ==
  [][calls' # calls /\ ThisCall.name \in DefineEndNames /\ indent_ > 0 =>
       /\ status' = "running"
       /\ indent_' = indent_ - INDENT_SIZE
       /\ Flatten(NewWrites) = <<ThisCall.name, "\n">>
       /\ RenderDepth(NewWrites) = indent_'
       /\ ForwardedOnce
       /\ result' = answer'
       /\ state' = state
       /\ LastCall.name \in IndentingBeginNames =>
            indent_' = RenderDepth(LineOfCall(Len(calls)))]_vars

\* BeginTypeSection followed by EndImportSection: the depth is back at 0, the end
\* line is in the stream and the consumer has received both calls
C22_Witness ==
  /\ status = "running"
  /\ Len(calls) = 2
  /\ calls[1].name = "BeginTypeSection"
  /\ calls[2].name = "EndImportSection"
  /\ indent_ = 0
  /\ Flatten(LineOfCall(2)) = <<"EndImportSection", "\n">>
  /\ RenderDepth(LineOfCall(2)) = 0
  /\ Len(reader_) = 2

\* C23 Depth invariant: at construction the depth is 0, the stream is empty and
\* the consumer has received nothing; after every event the depth is a multiple
\* of INDENT_SIZE, namely INDENT_SIZE times the number of indenting begin events
\* received less the number of dedenting end events received; an indenting begin
\* event changes it by +2, a dedenting end event by -2, any other event by 0.
C23_DepthInvariant ==
  [][calls' # calls =>
       /\ calls = <<>> => indent_ = 0 /\ stream_ = <<>> /\ reader_ = <<>>
       /\ indent_' % INDENT_SIZE = 0
       /\ indent_' =
            INDENT_SIZE * (CallsOf(IndentingBeginNames)' - CallsOf(DefineEndNames)')
       /\ indent_' - indent_ =
            IF ThisCall.name \in IndentingBeginNames THEN INDENT_SIZE
            ELSE IF ThisCall.name \in DefineEndNames THEN 0 - INDENT_SIZE
            ELSE 0]_vars

\* 74 modules have been begun and a section has been ended: the depth is 2 x 73
C23_Witness ==
  /\ status = "running"
  /\ CallsOf(IndentingBeginNames) = MaxNest
  /\ CallsOf(DefineEndNames) = 1
  /\ LastCall.name = "EndStartSection"
  /\ indent_ = INDENT_SIZE * (MaxNest - 1)

\* C24 as stated: every write WriteIndent issues takes at most s_indent_len bytes,
\* all of them within the padding buffer, at every depth.
C24_WritesWithinBuffer ==
  \A i \in 1 .. Len(stream_) :
    stream_[i].k = "pad" => stream_[i].n <= s_indent_len /\ stream_[i].oob = "none"

\* C24 up to the buffer's length: while the depth has not passed s_indent_len,
\* every write of WriteIndent is one write of exactly the depth's length.
C24_WritesWithinBufferUpToLength ==
  [][Returned /\ ThisCall.name \notin SilentNames /\ DepthAtRender <= s_indent_len =>
       /\ OnlySpaces(NewWrites)
       /\ PadLengths(Len(calls))' =
            IF DepthAtRender = 0 THEN <<>> ELSE <<DepthAtRender>>]_vars

\* the writes a list loop of count iterations makes between its brackets: one
\* per element and one separator after each element but the last
LoopWrites(count) == count + (IF count = 0 THEN 0 ELSE count - 1)

\* the iterations WriteIndent's chunk loop makes from depth columns: it takes
\* s_indent_len columns while more than s_indent_len remain
ChunkIterations(depth) == IF depth = 0 THEN 0 ELSE (depth - 1) \div s_indent_len

\* the text writes of w
TextWrites(w) == SelectSeq(w, LAMBDA x : x.k = "text")

\* C25 Termination: every call of an operation comes to its end, by returning or,
\* for an end event at depth 0, at the assert of Dedent; WriteIndent's chunk loop
\* makes one write of s_indent_len columns per iteration and stops when at most
\* s_indent_len columns remain, which one last write covers unless none remain;
\* the loops of LogTypes and OnBrTableExpr make exactly count iterations, none
\* for an empty list.
C25_Termination ==
  [][calls' # calls =>
       LET depth  == DepthAtRender
           chunks == ChunkIterations(depth)
           pads   == PadLengths(Len(calls))'
           texts  == TextWrites(NewWrites)
           toks   == Flatten(NewWrites)
           args   == ThisCall.args
       IN  /\ status' = "running" \/ (ThisCall.name \in DefineEndNames /\ indent_ = 0)
           /\ Returned /\ ThisCall.name \notin SilentNames =>
                /\ depth - chunks * s_indent_len \in 0 .. s_indent_len
                /\ Len(pads) = chunks + (IF depth > 0 THEN 1 ELSE 0)
                /\ \A i \in 1 .. chunks : pads[i] = s_indent_len
           /\ Returned /\ ThisCall.name = "OnType" =>
                /\ Len(texts) = 1 + (2 + LoopWrites(args[2])) + 1
                                  + (2 + LoopWrites(args[4])) + 1
                /\ Count(toks, ", ") = LoopWrites(args[2]) - args[2]
                                         + LoopWrites(args[4]) - args[4]
           /\ Returned /\ ThisCall.name = "OnBrTableExpr" =>
                /\ Len(texts) = 1 + LoopWrites(args[1]) + 1
                /\ Count(toks, ", ") = LoopWrites(args[1]) - args[1]]_vars

\* a type with three parameters has been rendered at depth 286: the chunk loop
\* has made two iterations and the parameter loop three
C25_Witness ==
  /\ status = "running"
  /\ Len(calls) = MaxLoopNest + 1
  /\ LastCall.name = "OnType"
  /\ LastCall.args[2] = 3
  /\ indent_ = 2 * s_indent_len + INDENT_SIZE
  /\ Len(PadLengths(Len(calls))) = 3
  /\ PadLengths(Len(calls))[1] = s_indent_len
  /\ PadLengths(Len(calls))[2] = s_indent_len

====
